---- MODULE Spec2Model ----
(***************************************************************************)
(* The bubble-hockey scoreboard of src/scoreboard.py (the variant at the   *)
(* head of the file): the GameState record, the sensor/key handlers of     *)
(* Scoreboard and one iteration of the frame loop of Scoreboard.run.       *)
(***************************************************************************)
EXTENDS Integers, Sequences, FiniteSets, TLC

\* ------------------------------------------------------------------------
\* Bounds of the model
\* ------------------------------------------------------------------------
\* Frames per second.  The program runs at 60 (src/scoreboard.py:79); the
\* model counts its frame timers at a reduced rate.  Every timer keeps the
\* expression the source gives it (3 * FPS, 5 * FPS).
FPS == 1
\* Frames of the shot cooldown after a shot edge (the literal 60 of
\* handle_usa_sog / handle_ussr_sog), counted at the model's reduced rate.
RecentSogFrames == 2
\* A goal edge is delivered only while the scores stay within MaxScore, a
\* shot or goal edge only while the shot counters stay within MaxSog.
MaxScore == 1
MaxSog == 1
\* Elapsed milliseconds reported by clock.tick for a stalled frame; a frame
\* reports either 0 or DtStall.
DtStall == 80000
\* A click selects one of the first MaxOption entries of a dropdown.
MaxOption == 2
\* The A key of the colour picker is pressed only while the picker holds
\* fewer than MaxColors entries.
MaxColors == 3
\* Elapsed milliseconds reported by clock.tick for a slow frame of the
\* setup screen while cards are scanned.
DtScan == 2000

\* ------------------------------------------------------------------------
\* Program constants
\* ------------------------------------------------------------------------
PeriodClock == 1200000        \* 20 * 60 * 1000 ms
ResetMultiplier == 10
MinMultiplier == 1
MaxMultiplier == 20
DefaultVolume == 5
FullVolume == 10
MotorRunMs == 500             \* MOTOR_RUN_TIME * 1000
LedBrightness == 50           \* LED_BRIGHTNESS = 0.5, in percent
FullBrightness == 100         \* pixels.brightness = 1.0, in percent
ScanMs == 3000                \* duration of the RFID scan animation
MessageMs == 2000             \* time an RFID message stays on the screen
CooldownMs == 2000            \* time a reader ignores cards after a scan

None == "None"
Truthy(x) == x # None /\ x # ""

\* The first entries of PLAYER_NAMES; both sides can select "Grandpa".
PLAYER_NAMES == <<"USSR", "USA", "Grandpa">>
VISITOR_NAMES == SelectSeq(PLAYER_NAMES, LAMBDA n : n # "USA")
HOME_NAMES == SelectSeq(PLAYER_NAMES, LAMBDA n : n # "USSR")
\* The names of the colours loaded from the colour file.
custom_colors == <<"Default Red", "Blue">>
secondary_color_names == <<"None">> \o custom_colors

IndexOf(seq, x, dflt) ==
    IF \E i \in 1..Len(seq) : seq[i] = x
    THEN CHOOSE i \in 1..Len(seq) : seq[i] = x
    ELSE dflt

DtValues == {0, DtStall}

\* The RFID card that is presented, NoCard for a read that finds none
\* (read_id_no_block returns None), and the Player Store, which maps a
\* card to its profile: NoProfile stands for a card that is not a key.
Cards == {"12345"}
NoCard == ""
NoProfile == [name |-> "", primary_color |-> "", secondary_color |-> ""]

VARIABLES
    game_state,   \* the GameState object
    board,        \* the Scoreboard's own mutable fields
    pixels,       \* TRUE iff the LED strip was initialised (self.pixels)
    motor,        \* TRUE iff the motor relay was initialised (self.motor)
    gpio_thread,  \* the handler gpiozero's callback thread is inside, or "idle"
    run_pc,       \* where Scoreboard.run is: "loop" in the frame loop, "exit"
                  \* after the code behind the loop, "raised" once an
                  \* exception has left run
    picker,       \* the ColorPicker object of src/LED_color_picker.py
    color_file    \* the colour file custom_colors.txt

vars == <<game_state, board, pixels, motor, gpio_thread, run_pc, picker,
          color_file>>

\* ------------------------------------------------------------------------
\* GameState
\* ------------------------------------------------------------------------
\* GameState.__init__ up to the call of reset
GameStateFields ==
    [ game_mode |-> "SETUP",
      player1_name |-> "USSR", player2_name |-> "USA",
      player1_primary_color |-> None, player1_secondary_color |-> None,
      player2_primary_color |-> None, player2_secondary_color |-> None,
      player1_ready |-> FALSE, player2_ready |-> FALSE,
      usa_score |-> 0, ussr_score |-> 0, usa_sog |-> 0, ussr_sog |-> 0,
      period |-> 1, game_clock |-> PeriodClock,
      game_active |-> FALSE, game_over |-> FALSE,
      time_multiplier |-> ResetMultiplier,
      goal_celebration_team |-> None,
      intermission_active |-> FALSE, overtime_active |-> FALSE,
      intermission_timer |-> 0, goal_celebration_timer |-> 0,
      is_muted |-> FALSE, volume |-> DefaultVolume,
      recent_sog_timer |-> 0,
      goal_animation_active |-> FALSE, goal_animation_timer |-> 0,
      goal_animation_color |-> "Off",
      game_end_celebration_active |-> FALSE, winner_name |-> "",
      motor_active |-> FALSE, motor_stop_time |-> 0,
      usa_special_celebration |-> FALSE, ussr_special_celebration |-> FALSE,
      game_lights_set |-> FALSE,
      rfid_scan_animation_active |-> FALSE,
      rfid_scan_animation_end_time |-> -1,    \* tick 0, which is in the past
      \* player numbers are 1 and 2; 0 stands for None.  The end times are
      \* kept relative to the current tick like the one above.
      show_rfid_popup_for_player |-> 0,
      rfid_save_message |-> "", rfid_save_message_end_time |-> -1,
      rfid_save_message_player |-> 0,
      rfid_load_message |-> "", rfid_load_message_end_time |-> -1,
      rfid_load_message_player |-> 0,
      rfid_welcome_message |-> "", rfid_welcome_message_end_time |-> -1,
      rfid_welcome_message_player |-> 0,
      rfid_away_cooldown_end_time |-> -1,
      rfid_home_cooldown_end_time |-> -1 ]

\* reset as it would be if it forgot the shots-on-goal counters
reset_keeps_sog(gs) ==
    [ gs EXCEPT
      !.usa_score = 0, !.ussr_score = 0,
      !.period = 1, !.game_clock = PeriodClock,
      !.game_active = FALSE, !.game_over = FALSE,
      !.time_multiplier = ResetMultiplier,
      !.goal_celebration_team = None,
      !.intermission_active = FALSE, !.overtime_active = FALSE,
      !.intermission_timer = 0, !.goal_celebration_timer = 0,
      !.is_muted = FALSE,
      !.recent_sog_timer = 0,
      !.goal_animation_active = FALSE, !.goal_animation_timer = 0,
      !.goal_animation_color = "Off",
      !.game_end_celebration_active = FALSE, !.winner_name = "",
      !.motor_active = FALSE, !.motor_stop_time = 0,
      !.player1_ready = FALSE, !.player2_ready = FALSE,
      !.usa_special_celebration = FALSE, !.ussr_special_celebration = FALSE,
      !.game_lights_set = FALSE ]

\* GameState.reset
reset(gs) ==
    [ gs EXCEPT
      !.usa_score = 0, !.ussr_score = 0, !.usa_sog = 0, !.ussr_sog = 0,
      !.period = 1, !.game_clock = PeriodClock,
      !.game_active = FALSE, !.game_over = FALSE,
      !.time_multiplier = ResetMultiplier,
      !.goal_celebration_team = None,
      !.intermission_active = FALSE, !.overtime_active = FALSE,
      !.intermission_timer = 0, !.goal_celebration_timer = 0,
      !.is_muted = FALSE,
      !.recent_sog_timer = 0,
      !.goal_animation_active = FALSE, !.goal_animation_timer = 0,
      !.goal_animation_color = "Off",
      !.game_end_celebration_active = FALSE, !.winner_name = "",
      !.motor_active = FALSE, !.motor_stop_time = 0,
      !.player1_ready = FALSE, !.player2_ready = FALSE,
      !.usa_special_celebration = FALSE, !.ussr_special_celebration = FALSE,
      !.game_lights_set = FALSE ]

\* update_clock as it would be without the clamp at 0
update_clock_no_clamp(gs, dt) ==
    IF gs.game_active /\ gs.game_clock > 0
    THEN [gs EXCEPT !.game_clock = @ - dt * gs.time_multiplier]
    ELSE gs

\* GameState.update_clock
update_clock(gs, dt) ==
    IF gs.game_active /\ gs.game_clock > 0
    THEN LET c == gs.game_clock - dt * gs.time_multiplier
         IN  [gs EXCEPT !.game_clock = IF c < 0 THEN 0 ELSE c]
    ELSE gs

\* ------------------------------------------------------------------------
\* The colour file and the colour picker (src/LED_color_picker.py)
\* ------------------------------------------------------------------------
\* A colour entry is a name with its LED and display RGB triples.  A name is
\* the sequence of the comma-free pieces of its text: <<"Red">> is the name
\* Red and <<"Teal", "dark">> the name "Teal,dark".  A line of the colour
\* file is the sequence of the fields that line.split(',') yields, and the
\* file is absent or a sequence of lines.
Entry(name, led, display) == [name |-> name, led |-> led, display |-> display]

\* the text of an integer in an f-string
Text(n) == ToString(n)

\* int(c): the colour value of a field; IsInt(c) is false where int raises
\* ValueError
IsInt(c) == \E n \in 0..255 : Text(n) = c
IntOf(c) == CHOOSE n \in 0..255 : Text(n) = c

\* the line save_colors writes for an entry, as line.split(',') reads it
EntryLine(e) ==
    e.name \o <<Text(e.led[1]), Text(e.led[2]), Text(e.led[3]),
                Text(e.display[1]), Text(e.display[2]), Text(e.display[3])>>

NoFile == [exists |-> FALSE, lines |-> <<>>]
FileOf(lines) == [exists |-> TRUE, lines |-> lines]

\* the entries of load_colors when there is no colour file, and the ones of
\* its except branch
PickerDefaults ==
    << Entry(<<"Default Red">>, <<255, 0, 0>>, <<200, 0, 0>>),
       Entry(<<"Black">>, <<0, 0, 0>>, <<0, 0, 0>>),
       Entry(<<"Default White">>, <<255, 255, 255>>, <<255, 255, 255>>) >>
FallbackDefaults ==
    << Entry(<<"Default Red">>, <<255, 0, 0>>, <<200, 0, 0>>),
       Entry(<<"Black">>, <<0, 0, 0>>, <<0, 0, 0>>),
       Entry(<<"White">>, <<255, 255, 255>>, <<255, 255, 255>>) >>
BlackEntry == Entry(<<"Black">>, <<0, 0, 0>>, <<0, 0, 0>>)

\* ColorPicker.save_colors: the file it writes
file_of_colors(saved_colors) ==
    FileOf([i \in 1..Len(saved_colors) |-> EntryLine(saved_colors[i])])

\* one line of load_colors: an entry, a line that is passed over (kind
\* "skip": blank, or neither 4 nor 7 fields), or a ValueError of int
\* (kind "raise")
parse_line(parts) ==
    LET ints(q) == \A i \in 1..Len(q) : IsInt(q[i])
        rgb(q) == <<IntOf(q[1]), IntOf(q[2]), IntOf(q[3])>>
    IN  IF parts = <<>> \/ parts = <<"">>
        THEN [kind |-> "skip"]
        ELSE IF Len(parts) = 4
        THEN IF ints(SubSeq(parts, 2, 4))
             THEN [kind |-> "old",
                   entry |-> Entry(<<parts[1]>>, rgb(SubSeq(parts, 2, 4)),
                                   rgb(SubSeq(parts, 2, 4)))]
             ELSE [kind |-> "raise"]
        ELSE IF Len(parts) = 7
        THEN IF ints(SubSeq(parts, 2, 7))
             THEN [kind |-> "entry",
                   entry |-> Entry(<<parts[1]>>, rgb(SubSeq(parts, 2, 4)),
                                   rgb(SubSeq(parts, 5, 7)))]
             ELSE [kind |-> "raise"]
        ELSE [kind |-> "skip"]

\* the entries of the lines of a file, in order
RECURSIVE parsed_entries(_)
parsed_entries(lines) ==
    IF lines = <<>> THEN <<>>
    ELSE LET r == parse_line(Head(lines))
         IN  IF r.kind \in {"old", "entry"}
             THEN <<r.entry>> \o parsed_entries(Tail(lines))
             ELSE parsed_entries(Tail(lines))

\* ColorPicker.load_colors: the entries it leaves in saved_colors and the
\* file it leaves behind
load_colors(file) ==
    LET kinds == {parse_line(file.lines[i]).kind : i \in 1..Len(file.lines)}
        found == parsed_entries(file.lines)
    IN  IF ~file.exists
        THEN [saved_colors |-> PickerDefaults,
              file |-> file_of_colors(PickerDefaults)]
        ELSE IF "raise" \in kinds
        THEN [saved_colors |-> FallbackDefaults, file |-> file]
        ELSE [saved_colors |-> IF Len(found) < 2
                               THEN Append(found, BlackEntry) ELSE found,
              file |-> IF "old" \in kinds THEN file_of_colors(found)
                       ELSE file]

\* Scoreboard.load_custom_colors: the entries it leaves in custom_colors
\* and the file it leaves behind.  Only lines of 7 fields are read, and a
\* ValueError ends the reading with the entries read so far.
RECURSIVE custom_entries(_)
custom_entries(lines) ==
    IF lines = <<>> THEN <<>>
    ELSE LET parts == Head(lines)
             r == parse_line(parts)
         IN  IF Len(parts) # 7 THEN custom_entries(Tail(lines))
             ELSE IF r.kind = "raise" THEN <<>>
             ELSE <<r.entry>> \o custom_entries(Tail(lines))

load_custom_colors(file) ==
    LET f == IF file.exists THEN file ELSE file_of_colors(PickerDefaults)
        found == custom_entries(f.lines)
    IN  [custom_colors |->
             IF found = <<>>
             THEN <<Entry(<<"Default">>, <<255, 255, 255>>,
                          <<255, 255, 255>>)>>
             ELSE found,
         file |-> f]

\* ColorPicker.__init__ before load_colors
ColorPickerFields ==
    [ saved_colors |-> <<>>,
      primary_index |-> 0, secondary_index |-> 1,
      current_led_rgb |-> <<0, 0, 0>>, current_display_rgb |-> <<0, 0, 0>>,
      is_saving |-> FALSE, input_text |-> <<>> ]

\* ColorPicker.update_current_colors_from_selection; the indices count from
\* 0 as in the source
update_current_colors_from_selection(pk) ==
    IF pk.saved_colors # <<>> /\ pk.primary_index < Len(pk.saved_colors)
    THEN [pk EXCEPT
            !.current_led_rgb = pk.saved_colors[pk.primary_index + 1].led,
            !.current_display_rgb =
                pk.saved_colors[pk.primary_index + 1].display]
    ELSE pk

\* ColorPicker.__init__
start_picker(file) ==
    LET loaded == load_colors(file)
    IN  [pk |-> update_current_colors_from_selection(
                    [ColorPickerFields EXCEPT
                        !.saved_colors = loaded.saved_colors]),
         file |-> loaded.file]

Min(a, b) == IF a < b THEN a ELSE b
Max(a, b) == IF a > b THEN a ELSE b

\* ColorPicker.handle_input and the rest of the frame of ColorPicker.run,
\* for one key pressed while no name is being entered.  A picker world pw
\* is [pk |-> ColorPicker fields, file |-> colour file].
key_up(pw) ==
    IF pw.pk.saved_colors = <<>> THEN pw
    ELSE [pw EXCEPT !.pk = update_current_colors_from_selection(
                      [@ EXCEPT !.primary_index = Max(0, @ - 1)])]

key_down(pw) ==
    IF pw.pk.saved_colors = <<>> THEN pw
    ELSE [pw EXCEPT !.pk = update_current_colors_from_selection(
                      [@ EXCEPT !.primary_index =
                          Min(Len(pw.pk.saved_colors) - 1, @ + 1)])]

key_pageup(pw) ==
    IF pw.pk.saved_colors = <<>> THEN pw
    ELSE [pw EXCEPT !.pk.secondary_index = Max(0, @ - 1)]

key_pagedown(pw) ==
    IF pw.pk.saved_colors = <<>> THEN pw
    ELSE [pw EXCEPT !.pk.secondary_index =
                        Min(Len(pw.pk.saved_colors) - 1, @ + 1)]

key_s(pw) ==
    IF pw.pk.saved_colors = <<>> THEN pw
    ELSE [pw EXCEPT !.pk.input_text =
                        pw.pk.saved_colors[pw.pk.primary_index + 1].name,
                    !.pk.is_saving = TRUE]

\* the A key: the new entry is appended and selected, and the frame saves
\* the colours because colors_changed is set
key_a(pw) ==
    LET colors == Append(pw.pk.saved_colors,
                         Entry(<<"New Color">>, <<0, 0, 0>>, <<0, 0, 0>>))
    IN  [pk |-> update_current_colors_from_selection(
                  [pw.pk EXCEPT !.saved_colors = colors,
                                !.primary_index = Len(colors) - 1]),
         file |-> file_of_colors(colors)]

\* the DELETE key
key_delete(pw) ==
    IF Len(pw.pk.saved_colors) <= 1 THEN pw
    ELSE LET i == pw.pk.primary_index + 1
             colors == SubSeq(pw.pk.saved_colors, 1, i - 1) \o
                       SubSeq(pw.pk.saved_colors, i + 1,
                              Len(pw.pk.saved_colors))
         IN  [pk |-> update_current_colors_from_selection(
                       [pw.pk EXCEPT
                          !.saved_colors = colors,
                          !.primary_index = Min(@, Len(colors) - 1),
                          !.secondary_index = Min(@, Len(colors) - 1)]),
              file |-> file_of_colors(colors)]

\* the RETURN key while a name is being entered
key_return(pw) ==
    IF pw.pk.input_text = <<>> THEN pw
    ELSE LET colors == [pw.pk.saved_colors EXCEPT
                          ![pw.pk.primary_index + 1] =
                              Entry(pw.pk.input_text, pw.pk.current_led_rgb,
                                    pw.pk.current_display_rgb)]
         IN  [pk |-> [pw.pk EXCEPT !.saved_colors = colors,
                                   !.is_saving = FALSE,
                                   !.input_text = <<>>],
              file |-> file_of_colors(colors)]

\* the ESC key while a name is being entered
key_escape(pw) ==
    [pw EXCEPT !.pk.is_saving = FALSE, !.pk.input_text = <<>>]

\* the colour file the scoreboard was started with
ScoreboardColorFile ==
    file_of_colors(<< Entry(<<"Default Red">>, <<255, 0, 0>>, <<200, 0, 0>>),
                      Entry(<<"Blue">>, <<0, 0, 255>>, <<0, 0, 255>>) >>)

\* ------------------------------------------------------------------------
\* Scoreboard: a world w is [gs |-> GameState, sb |-> Scoreboard fields]
\* ------------------------------------------------------------------------
\* Scoreboard.__init__ and the dropdown initialisation at the head of run
BoardFields ==
    [ brightness |-> LedBrightness,
      strip_lit |-> FALSE,
      strip_shows |-> "off",
      mixer_muted |-> FALSE,
      reader_away |-> FALSE,
      reader_home |-> FALSE,
      players |-> [c \in Cards |-> NoProfile],
      motor_on |-> FALSE,
      video_interrupt_requested |-> FALSE,
      p1_name_dd |-> IndexOf(VISITOR_NAMES, "USSR", 1),
      p2_name_dd |-> IndexOf(HOME_NAMES, "USA", 1),
      p1_pri_color_dd |-> IndexOf(custom_colors, "Default Red", 1),
      p2_pri_color_dd |-> IndexOf(custom_colors, "Blue", 1),
      p1_sec_color_dd |-> 1,
      p2_sec_color_dd |-> 1 ]

\* Scoreboard.clear_leds
clear_leds(w, px) ==
    IF px
    THEN [w EXCEPT !.sb.brightness = LedBrightness,
                   !.sb.strip_lit = FALSE, !.sb.strip_shows = "off",
                   !.gs.goal_animation_active = FALSE]
    ELSE w

\* Scoreboard.trigger_game_end; a winner without a primary colour raises
\* at the last assignment, after the others are done
trigger_game_end(w, winner_id, px) ==
    LET info == IF winner_id = "player1" THEN w.gs.player1_primary_color
                ELSE w.gs.player2_primary_color
        w1 == [w EXCEPT !.gs.game_over = TRUE,
                        !.gs.game_end_celebration_active = TRUE,
                        !.gs.goal_celebration_timer = 5 * FPS,
                        !.gs.winner_name = IF winner_id = "player1"
                                           THEN w.gs.player1_name
                                           ELSE w.gs.player2_name]
    IN  IF px
        THEN [w1 EXCEPT !.sb.brightness = FullBrightness,
                        !.gs.goal_animation_active = TRUE,
                        !.gs.goal_animation_timer = 5 * FPS,
                        !.gs.goal_animation_color =
                            IF info = None THEN @ ELSE info]
        ELSE w1

\* Scoreboard.handle_usa_goal, the statements under its guard.  With no
\* primary colour for player 2 the handler raises at the
\* goal_animation_color assignment and the statements after it are not run.
usa_goal_accepted(w, px) ==
    LET special == /\ w.gs.player2_name = "USA"
                   /\ Truthy(w.gs.player2_primary_color)
                   /\ w.gs.player2_primary_color = "Blue"
                   /\ w.gs.player2_secondary_color = None
        w1 == [w EXCEPT
                 !.gs.usa_score = @ + 1,
                 !.gs.usa_sog = IF w.gs.recent_sog_timer <= 0 THEN @ + 1 ELSE @,
                 !.gs.ussr_special_celebration = FALSE,
                 !.gs.usa_special_celebration = special]
        w2 == [w1 EXCEPT
                 !.sb.brightness = IF px THEN FullBrightness ELSE @,
                 !.gs.goal_animation_active = TRUE,
                 !.gs.goal_animation_timer = 5 * FPS]
    IN  IF w1.gs.overtime_active THEN trigger_game_end(w1, "player2", px)
        ELSE IF w2.gs.player2_primary_color = None THEN w2
        ELSE [w2 EXCEPT
                 !.gs.goal_animation_color = w2.gs.player2_primary_color,
                 !.gs.game_active = FALSE,
                 !.gs.goal_celebration_team = w2.gs.player2_name]

\* handle_usa_goal as it would be if it checked game_over only
handle_usa_goal_unguarded(w, px) ==
    IF w.gs.game_over THEN w
    ELSE
    LET w1 == [w EXCEPT
                 !.gs.usa_score = @ + 1,
                 !.gs.usa_sog = IF w.gs.recent_sog_timer <= 0 THEN @ + 1 ELSE @]
    IN  IF w1.gs.overtime_active THEN trigger_game_end(w1, "player2", px)
        ELSE [w1 EXCEPT
                 !.sb.brightness = IF px THEN FullBrightness ELSE @,
                 !.gs.goal_animation_active = TRUE,
                 !.gs.goal_animation_timer = 5 * FPS,
                 !.gs.game_active = FALSE,
                 !.gs.goal_celebration_team = w1.gs.player2_name]

\* Scoreboard.handle_usa_goal (GPIO edge or key U)
handle_usa_goal(w, px) ==
    IF w.gs.game_over \/ Truthy(w.gs.goal_celebration_team) THEN w
    ELSE usa_goal_accepted(w, px)

\* Scoreboard.handle_ussr_goal, the statements under its guard
ussr_goal_accepted(w, px) ==
    LET special == /\ w.gs.player1_name = "USSR"
                   /\ Truthy(w.gs.player1_primary_color)
                   /\ w.gs.player1_primary_color = "Default Red"
                   /\ w.gs.player1_secondary_color = None
        w1 == [w EXCEPT
                 !.gs.ussr_score = @ + 1,
                 !.gs.ussr_sog = IF w.gs.recent_sog_timer <= 0 THEN @ + 1 ELSE @]
        w2 == [w1 EXCEPT
                 !.sb.brightness = IF px THEN FullBrightness ELSE @,
                 !.gs.goal_animation_active = TRUE,
                 !.gs.goal_animation_timer = 5 * FPS,
                 !.gs.usa_special_celebration = FALSE,
                 !.gs.ussr_special_celebration = special]
        w3 == IF special THEN w2
              ELSE [w2 EXCEPT
                      !.gs.goal_animation_color = w2.gs.player1_primary_color]
    IN  IF w1.gs.overtime_active THEN trigger_game_end(w1, "player1", px)
        ELSE IF ~special /\ w2.gs.player1_primary_color = None THEN w2
        ELSE [w3 EXCEPT
                 !.gs.game_active = FALSE,
                 !.gs.goal_celebration_team = w3.gs.player1_name]

\* Scoreboard.handle_ussr_goal (GPIO edge or key I)
handle_ussr_goal(w, px) ==
    IF w.gs.game_over \/ Truthy(w.gs.goal_celebration_team) THEN w
    ELSE ussr_goal_accepted(w, px)

\* handle_usa_sog as it would be if it did not start the cooldown
handle_usa_sog_no_cooldown(w) ==
    IF w.gs.game_over \/ Truthy(w.gs.goal_celebration_team) THEN w
    ELSE [w EXCEPT !.gs.usa_sog = @ + 1]

\* Scoreboard.handle_usa_sog (GPIO edge or key J)
handle_usa_sog(w) ==
    IF w.gs.game_over \/ Truthy(w.gs.goal_celebration_team) THEN w
    ELSE [w EXCEPT !.gs.usa_sog = @ + 1,
                   !.gs.recent_sog_timer = RecentSogFrames]

\* Scoreboard.handle_ussr_sog (GPIO edge or key K)
handle_ussr_sog(w) ==
    IF w.gs.game_over \/ Truthy(w.gs.goal_celebration_team) THEN w
    ELSE [w EXCEPT !.gs.ussr_sog = @ + 1,
                   !.gs.recent_sog_timer = RecentSogFrames]

\* _start_faceoff_sequence as it would be if it left game_lights_set alone
start_faceoff_sequence_keeps_lights(w, px, mt) ==
    IF w.gs.game_over \/ w.gs.motor_active THEN w
    ELSE
    LET w1 == clear_leds(w, px)
        w2 == IF mt
              THEN [w1 EXCEPT !.sb.motor_on = TRUE,
                              !.gs.motor_active = TRUE,
                              !.gs.motor_stop_time = MotorRunMs]
              ELSE w1
    IN  [w2 EXCEPT !.gs.game_active = TRUE,
                   !.gs.goal_celebration_team = None]

\* Scoreboard._start_faceoff_sequence.  motor_stop_time is kept relative to
\* the current tick: the milliseconds the relay still has to run.
start_faceoff_sequence(w, px, mt) ==
    IF w.gs.game_over \/ w.gs.motor_active THEN w
    ELSE
    LET w1 == clear_leds(w, px)
        w2 == IF mt
              THEN [w1 EXCEPT !.sb.motor_on = TRUE,
                              !.gs.motor_active = TRUE,
                              !.gs.motor_stop_time = MotorRunMs]
              ELSE w1
    IN  [w2 EXCEPT !.gs.game_active = TRUE,
                   !.gs.goal_celebration_team = None,
                   !.gs.game_lights_set = FALSE]

\* Scoreboard.handle_player1_faceoff
handle_player1_faceoff(w, px, mt) ==
    IF w.gs.game_mode = "SETUP"
    THEN [w EXCEPT !.gs.player1_ready = ~@]
    ELSE IF w.gs.game_mode = "VIDEO"
    THEN [w EXCEPT !.sb.video_interrupt_requested = TRUE]
    ELSE start_faceoff_sequence(w, px, mt)

\* Scoreboard.handle_player2_faceoff
handle_player2_faceoff(w, px, mt) ==
    IF w.gs.game_mode = "SETUP"
    THEN [w EXCEPT !.gs.player2_ready = ~@]
    ELSE IF w.gs.game_mode = "VIDEO"
    THEN [w EXCEPT !.sb.video_interrupt_requested = TRUE]
    ELSE start_faceoff_sequence(w, px, mt)

\* Scoreboard.set_master_volume.  The volume is counted in tenths.  The
\* mixer command 'amixer set Master N%' sets the level of the mixer and
\* leaves its mute switch (sb.mixer_muted) as it is.
set_master_volume(w, new_volume) ==
    [w EXCEPT !.gs.volume = Max(0, Min(FullVolume, new_volume)),
              !.gs.is_muted = IF new_volume > 0 THEN FALSE ELSE @]

\* Scoreboard.increase_volume and Scoreboard.decrease_volume
increase_volume(w) == set_master_volume(w, w.gs.volume + 1)
decrease_volume(w) == set_master_volume(w, w.gs.volume - 1)

\* Scoreboard.toggle_mute: the mixer command is 'mute' or 'unmute'
toggle_mute(w) ==
    [w EXCEPT !.gs.is_muted = ~@, !.sb.mixer_muted = ~w.gs.is_muted]

\* Scoreboard.handle_volume_button_press
handle_volume_button_press(w) ==
    IF w.gs.game_over
    THEN LET w1 == [w EXCEPT !.gs = [reset(w.gs) EXCEPT !.game_mode = "SETUP"]]
         IN  set_master_volume(w1, w1.gs.volume)
    ELSE toggle_mute(w)

\* Scoreboard.update_motor, after dt more milliseconds have passed
update_motor(w, mt, dt) ==
    LET left == IF w.gs.motor_stop_time > dt
                THEN w.gs.motor_stop_time - dt ELSE 0
    IN  IF w.gs.motor_active /\ mt /\ left = 0
        THEN [w EXCEPT !.sb.motor_on = FALSE,
                       !.gs.motor_active = FALSE,
                       !.gs.motor_stop_time = 0]
        ELSE [w EXCEPT !.gs.motor_stop_time = left]

\* check_period_end as it would be if the game were decided after two periods
check_period_end_two_periods(w, px) ==
    IF \/ w.gs.game_clock > 0 \/ w.gs.game_over
       \/ w.gs.intermission_active \/ w.gs.overtime_active
    THEN w
    ELSE
    LET w1 == [w EXCEPT !.gs.game_active = FALSE]
    IN  IF w1.gs.period <= 1
        THEN [w1 EXCEPT !.gs.intermission_active = TRUE,
                        !.gs.intermission_timer = 3 * FPS]
        ELSE IF w1.gs.ussr_score = w1.gs.usa_score
             THEN [w1 EXCEPT !.gs.overtime_active = TRUE,
                             !.gs.intermission_active = TRUE,
                             !.gs.intermission_timer = 3 * FPS]
             ELSE trigger_game_end(w1,
                      IF w1.gs.ussr_score > w1.gs.usa_score
                      THEN "player1" ELSE "player2", px)

\* check_period_end as it would be if a tie after period 3 ended the game
check_period_end_no_overtime(w, px) ==
    IF \/ w.gs.game_clock > 0 \/ w.gs.game_over
       \/ w.gs.intermission_active \/ w.gs.overtime_active
    THEN w
    ELSE
    LET w1 == [w EXCEPT !.gs.game_active = FALSE]
    IN  IF w1.gs.period <= 2
        THEN [w1 EXCEPT !.gs.intermission_active = TRUE,
                        !.gs.intermission_timer = 3 * FPS]
        ELSE IF FALSE
             THEN [w1 EXCEPT !.gs.overtime_active = TRUE,
                             !.gs.intermission_active = TRUE,
                             !.gs.intermission_timer = 3 * FPS]
             ELSE trigger_game_end(w1,
                      IF w1.gs.ussr_score > w1.gs.usa_score
                      THEN "player1" ELSE "player2", px)

\* check_period_end as it would be if the lower score won
check_period_end_swapped(w, px) ==
    IF \/ w.gs.game_clock > 0 \/ w.gs.game_over
       \/ w.gs.intermission_active \/ w.gs.overtime_active
    THEN w
    ELSE
    LET w1 == [w EXCEPT !.gs.game_active = FALSE]
    IN  IF w1.gs.period <= 2
        THEN [w1 EXCEPT !.gs.intermission_active = TRUE,
                        !.gs.intermission_timer = 3 * FPS]
        ELSE IF w1.gs.ussr_score = w1.gs.usa_score
             THEN [w1 EXCEPT !.gs.overtime_active = TRUE,
                             !.gs.intermission_active = TRUE,
                             !.gs.intermission_timer = 3 * FPS]
             ELSE trigger_game_end(w1,
                      IF w1.gs.ussr_score < w1.gs.usa_score
                      THEN "player1" ELSE "player2", px)

\* Scoreboard.check_period_end
check_period_end(w, px) ==
    IF \/ w.gs.game_clock > 0 \/ w.gs.game_over
       \/ w.gs.intermission_active \/ w.gs.overtime_active
    THEN w
    ELSE
    LET w1 == [w EXCEPT !.gs.game_active = FALSE]
    IN  IF w1.gs.period < 3
        THEN [w1 EXCEPT !.gs.intermission_active = TRUE,
                        !.gs.intermission_timer = 3 * FPS]
        ELSE IF w1.gs.period = 3
        THEN IF w1.gs.ussr_score = w1.gs.usa_score
             THEN [w1 EXCEPT !.gs.overtime_active = TRUE,
                             !.gs.intermission_active = TRUE,
                             !.gs.intermission_timer = 3 * FPS]
             ELSE trigger_game_end(w1,
                      IF w1.gs.ussr_score > w1.gs.usa_score
                      THEN "player1" ELSE "player2", px)
        ELSE w1

\* update_intermission as it would be if it left the clock stopped
update_intermission_no_restart(w, px) ==
    IF ~w.gs.intermission_active THEN w
    ELSE
    LET w1 == [w EXCEPT !.gs.intermission_timer = @ - 1]
    IN  IF w1.gs.intermission_timer <= 0
        THEN LET w2 == clear_leds([w1 EXCEPT !.gs.intermission_active = FALSE],
                                  px)
                 w3 == [w2 EXCEPT !.gs.game_lights_set = FALSE]
             IN  IF w3.gs.overtime_active THEN w3
                 ELSE [w3 EXCEPT !.gs.period = @ + 1,
                                 !.gs.game_clock = PeriodClock]
        ELSE w1

\* update_intermission as it would be if it restarted the same period
update_intermission_same_period(w, px) ==
    IF ~w.gs.intermission_active THEN w
    ELSE
    LET w1 == [w EXCEPT !.gs.intermission_timer = @ - 1]
    IN  IF w1.gs.intermission_timer <= 0
        THEN LET w2 == clear_leds([w1 EXCEPT !.gs.intermission_active = FALSE],
                                  px)
                 w3 == [w2 EXCEPT !.gs.game_lights_set = FALSE]
             IN  IF w3.gs.overtime_active THEN w3
                 ELSE [w3 EXCEPT !.gs.game_clock = PeriodClock,
                                 !.gs.game_active = TRUE]
        ELSE w1

\* Scoreboard.update_intermission
update_intermission(w, px) ==
    IF ~w.gs.intermission_active THEN w
    ELSE
    LET w1 == [w EXCEPT !.gs.intermission_timer = @ - 1]
    IN  IF w1.gs.intermission_timer <= 0
        THEN LET w2 == clear_leds([w1 EXCEPT !.gs.intermission_active = FALSE],
                                  px)
                 w3 == [w2 EXCEPT !.gs.game_lights_set = FALSE]
             IN  IF w3.gs.overtime_active THEN w3
                 ELSE [w3 EXCEPT !.gs.period = @ + 1,
                                 !.gs.game_clock = PeriodClock,
                                 !.gs.game_active = TRUE]
        ELSE w1

\* Scoreboard.update_goal_celebration_timer
update_goal_celebration_timer(w) ==
    IF w.gs.goal_celebration_timer > 0
    THEN LET w1 == [w EXCEPT !.gs.goal_celebration_timer = @ - 1]
         IN  IF w1.gs.goal_celebration_timer <= 0
             THEN IF w1.gs.game_end_celebration_active
                  THEN [w1 EXCEPT !.gs.goal_celebration_team = None,
                                  !.gs.game_end_celebration_active = FALSE,
                                  !.gs.overtime_active = FALSE]
                  ELSE [w1 EXCEPT !.gs.goal_celebration_team = None,
                                  !.gs.game_over = FALSE]
             ELSE w1
    ELSE w

\* Scoreboard.update_sog_timer
update_sog_timer(w) ==
    IF w.gs.recent_sog_timer > 0
    THEN [w EXCEPT !.gs.recent_sog_timer = @ - 1]
    ELSE w

\* update_goal_animation as it would be if the end of its timer ended the
\* goal celebration
update_goal_animation_ends_celebration(w, px) ==
    IF ~px \/ ~w.gs.goal_animation_active THEN w
    ELSE IF w.gs.goal_animation_timer > 1
    THEN [w EXCEPT !.gs.goal_animation_timer = @ - 1,
                   !.sb.strip_lit = TRUE, !.sb.strip_shows = "goal"]
    ELSE IF w.gs.game_over
    THEN [w EXCEPT !.gs.goal_animation_timer = 0, !.sb.strip_lit = TRUE, !.sb.strip_shows = "goal"]
    ELSE [w EXCEPT !.gs.goal_animation_timer = 0,
                   !.sb.strip_lit = TRUE, !.sb.strip_shows = "goal",
                   !.gs.goal_celebration_team = None,
                   !.gs.game_active = TRUE]

\* Scoreboard.update_goal_animation: the frame bookkeeping of the animation
\* and the chase shown on the strip
update_goal_animation(w, px) ==
    IF ~px \/ ~w.gs.goal_animation_active THEN w
    ELSE IF w.gs.goal_animation_timer > 0
    THEN [w EXCEPT !.gs.goal_animation_timer = @ - 1,
                   !.sb.strip_lit = TRUE, !.sb.strip_shows = "goal"]
    ELSE [w EXCEPT !.sb.strip_lit = TRUE, !.sb.strip_shows = "goal"]

\* Scoreboard.game_active_effect
game_active_effect(w, px) ==
    IF ~px \/ w.gs.game_lights_set THEN w
    ELSE [w EXCEPT !.gs.game_lights_set = TRUE, !.sb.strip_lit = TRUE, !.sb.strip_shows = "wash"]

\* Scoreboard.idle_effect
idle_effect(w, px) ==
    IF ~px \/ w.gs.goal_animation_active \/ w.gs.game_active
           \/ w.gs.rfid_scan_animation_active
    THEN w
    ELSE [w EXCEPT !.sb.strip_lit = TRUE, !.sb.strip_shows = "idle"]

\* Scoreboard.trigger_scan_animation, called with a primary colour.
\* rfid_scan_animation_end_time is kept relative to the current tick: the
\* milliseconds the animation still has to run, below 0 once they are over.
trigger_scan_animation(w) ==
    [w EXCEPT !.gs.rfid_scan_animation_active = TRUE,
              !.gs.rfid_scan_animation_end_time = ScanMs]

\* pygame.time.get_ticks advancing by the dt of the frame
elapse(w, dt) ==
    LET left(t) == IF t - dt < 0 THEN -1 ELSE t - dt
    IN  [w EXCEPT !.gs.rfid_scan_animation_end_time = left(@),
                  !.gs.rfid_save_message_end_time = left(@),
                  !.gs.rfid_load_message_end_time = left(@),
                  !.gs.rfid_welcome_message_end_time = left(@),
                  !.gs.rfid_away_cooldown_end_time = left(@),
                  !.gs.rfid_home_cooldown_end_time = left(@)]

\* the head of a frame as it would be if it never cleared a message
frame_head_keeps_messages(w, dt) == elapse(w, dt)

\* Scoreboard.run, head of a frame: the tick advances and the RFID messages
\* whose end time has passed are cleared
frame_head(w, dt) ==
    LET w1 == elapse(w, dt)
        expired(msg, end) == IF msg # "" /\ end < 0 THEN "" ELSE msg
    IN  [w1 EXCEPT
           !.gs.rfid_save_message =
               expired(@, w1.gs.rfid_save_message_end_time),
           !.gs.rfid_load_message =
               expired(@, w1.gs.rfid_load_message_end_time),
           !.gs.rfid_welcome_message =
               expired(@, w1.gs.rfid_welcome_message_end_time)]

\* the dropdowns of a side and the option lists handed to
\* load_player_profile for it
SideDropdowns(player_num) ==
    IF player_num = 1
    THEN [name |-> "p1_name_dd", pri |-> "p1_pri_color_dd",
          sec |-> "p1_sec_color_dd", names |-> VISITOR_NAMES]
    ELSE [name |-> "p2_name_dd", pri |-> "p2_pri_color_dd",
          sec |-> "p2_sec_color_dd", names |-> HOME_NAMES]

\* list.index: the first position of x in seq, 0 if there is none
FirstIndex(seq, x) ==
    IF \E i \in 1..Len(seq) : seq[i] = x
    THEN CHOOSE i \in 1..Len(seq) :
           seq[i] = x /\ \A j \in 1..(i - 1) : seq[j] # x
    ELSE 0

\* load_player_profile as it would be if it read the saved secondary
\* colour in the list of the primary colours
load_player_profile_sec_as_pri(w, card_id, player_num, px) ==
    LET dd == SideDropdowns(player_num)
        data == w.sb.players[card_id]
        set(v, idx, field) == IF idx = 0 THEN v
                              ELSE [v EXCEPT !.sb[field] = idx]
        w1 == set(w, FirstIndex(dd.names, data.name), dd.name)
        w2 == set(w1, FirstIndex(custom_colors, data.primary_color), dd.pri)
        w3 == set(w2, FirstIndex(custom_colors, data.secondary_color), dd.sec)
        w4 == IF FirstIndex(custom_colors, data.primary_color) # 0
              THEN trigger_scan_animation(w3) ELSE w3
    IN  IF data # NoProfile
        THEN clear_leds([w4 EXCEPT
                 !.gs.rfid_welcome_message = "Welcome " \o data.name,
                 !.gs.rfid_welcome_message_end_time = MessageMs,
                 !.gs.rfid_welcome_message_player = player_num], px)
        ELSE clear_leds([w EXCEPT
                 !.gs.rfid_load_message = "No data on card",
                 !.gs.rfid_load_message_end_time = MessageMs,
                 !.gs.rfid_load_message_player = player_num], px)

\* Scoreboard.load_player_profile
load_player_profile(w, card_id, player_num, px) ==
    LET dd == SideDropdowns(player_num)
        data == w.sb.players[card_id]
        set(v, idx, field) == IF idx = 0 THEN v
                              ELSE [v EXCEPT !.sb[field] = idx]
        w1 == set(w, FirstIndex(dd.names, data.name), dd.name)
        w2 == set(w1, FirstIndex(custom_colors, data.primary_color), dd.pri)
        w3 == set(w2, FirstIndex(secondary_color_names,
                                 data.secondary_color), dd.sec)
        w4 == IF FirstIndex(custom_colors, data.primary_color) # 0
              THEN trigger_scan_animation(w3) ELSE w3
    IN  IF data # NoProfile
        THEN clear_leds([w4 EXCEPT
                 !.gs.rfid_welcome_message = "Welcome " \o data.name,
                 !.gs.rfid_welcome_message_end_time = MessageMs,
                 !.gs.rfid_welcome_message_player = player_num], px)
        ELSE clear_leds([w EXCEPT
                 !.gs.rfid_load_message = "No data on card",
                 !.gs.rfid_load_message_end_time = MessageMs,
                 !.gs.rfid_load_message_player = player_num], px)

\* Scoreboard.run, the scan of a card while the save dialog of a side is
\* open: the side's selections are stored under the card
save_player_profile(w, card_id, player_num) ==
    LET dd == SideDropdowns(player_num)
        data == [name |-> dd.names[w.sb[dd.name]],
                 primary_color |-> custom_colors[w.sb[dd.pri]],
                 secondary_color |-> secondary_color_names[w.sb[dd.sec]]]
        w1 == [w EXCEPT
                 !.sb.players[card_id] = data,
                 !.gs.rfid_save_message = "Settings Saved!",
                 !.gs.rfid_save_message_end_time = MessageMs,
                 !.gs.rfid_save_message_player = player_num,
                 !.gs.show_rfid_popup_for_player = 0]
    IN  IF player_num = 1
        THEN [w1 EXCEPT !.gs.rfid_away_cooldown_end_time = CooldownMs]
        ELSE [w1 EXCEPT !.gs.rfid_home_cooldown_end_time = CooldownMs]

\* Scoreboard.run, the RFID polling of SETUP mode in a frame with
\* frame_counter a multiple of 15; no read raises
setup_poll(w, card_away, card_home, px) ==
    LET player_num == w.gs.show_rfid_popup_for_player
        w1 == IF w.sb.reader_away /\ w.gs.rfid_away_cooldown_end_time < 0
                 /\ card_away # NoCard
              THEN [load_player_profile(w, card_away, 1, px) EXCEPT
                      !.gs.rfid_away_cooldown_end_time = CooldownMs]
              ELSE w
        w2 == IF w.sb.reader_home /\ w.gs.rfid_home_cooldown_end_time < 0
                 /\ card_home # NoCard
              THEN [load_player_profile(w1, card_home, 2, px) EXCEPT
                      !.gs.rfid_home_cooldown_end_time = CooldownMs]
              ELSE w1
    IN  IF player_num = 0 THEN w2
        ELSE IF player_num = 1
        THEN IF w.sb.reader_away /\ card_away # NoCard
             THEN save_player_profile(w, card_away, 1) ELSE w
        ELSE IF w.sb.reader_home /\ card_home # NoCard
             THEN save_player_profile(w, card_home, 2) ELSE w

\* Scoreboard.update_rfid_scan_animation
update_rfid_scan_animation(w, px) ==
    IF ~px \/ ~w.gs.rfid_scan_animation_active THEN w
    ELSE IF w.gs.rfid_scan_animation_end_time < 0
    THEN [w EXCEPT !.gs.rfid_scan_animation_active = FALSE]
    ELSE [w EXCEPT !.sb.strip_lit = TRUE, !.sb.strip_shows = "scan"]

\* Scoreboard.run, the LED branch of SETUP mode
setup_leds(w, px) ==
    IF w.gs.rfid_scan_animation_active
    THEN update_rfid_scan_animation(w, px)
    ELSE idle_effect(w, px)

\* Scoreboard.run, the LED branch of GAME mode
game_leds(w, px) ==
    IF w.gs.goal_animation_active THEN update_goal_animation(w, px)
    ELSE IF w.gs.game_over THEN clear_leds(w, px)
    ELSE IF w.gs.game_active \/ w.gs.overtime_active
    THEN game_active_effect(w, px)
    ELSE idle_effect(w, px)

\* Scoreboard.run, the state updates of one frame in GAME mode up to the
\* LED branch
game_updates(w, px, mt, dt) ==
    LET w1 == [w EXCEPT !.gs = update_clock(w.gs, dt)]
        w2 == update_motor(w1, mt, dt)
        w3 == check_period_end(w2, px)
        w4 == update_intermission(w3, px)
        w5 == update_goal_celebration_timer(w4)
    IN  update_sog_timer(w5)

\* Scoreboard.run, the state updates of one frame in GAME mode
game_frame(w, px, mt, dt) == game_leds(game_updates(w, px, mt, dt), px)

\* The LED effects that write the strip (assign LEDs and call pixels.show)
\* when called in world w: each effect function's own conditions.
effect_writes(effect, w, px) ==
    CASE effect = "goal_chase" -> px /\ w.gs.goal_animation_active
      [] effect = "rfid_scan" ->
            /\ px /\ w.gs.rfid_scan_animation_active
            /\ w.gs.rfid_scan_animation_end_time >= 0
      [] effect = "wash" -> px /\ ~w.gs.game_lights_set
      [] effect = "clear_leds" -> px
      [] effect = "idle" ->
            /\ px /\ ~w.gs.goal_animation_active /\ ~w.gs.game_active
            /\ ~w.gs.rfid_scan_animation_active
      [] OTHER -> FALSE

\* the LED branch of GAME mode as it would be if the idle effect were
\* called in every frame
game_led_calls_blended(w) ==
    IF w.gs.goal_animation_active THEN {"goal_chase", "idle"}
    ELSE IF w.gs.game_over THEN {"clear_leds", "idle"}
    ELSE IF w.gs.game_active \/ w.gs.overtime_active THEN {"wash", "idle"}
    ELSE {"idle"}

\* Scoreboard.run, the LED branch of GAME mode: the effects it calls
game_led_calls(w) ==
    IF w.gs.goal_animation_active THEN {"goal_chase"}
    ELSE IF w.gs.game_over THEN {"clear_leds"}
    ELSE IF w.gs.game_active \/ w.gs.overtime_active THEN {"wash"}
    ELSE {"idle"}

\* Scoreboard.run, the LED branch of SETUP mode: the effects it calls
setup_led_calls(w) ==
    IF w.gs.player1_ready /\ w.gs.player2_ready THEN {}
    ELSE IF w.gs.rfid_scan_animation_active THEN {"rfid_scan"}
    ELSE {"idle"}

\* The effects that write the strip in the frame that starts in world w and
\* reports dt
frame_led_writers(w, px, mt, dt) ==
    LET led == IF w.gs.game_mode = "GAME"
               THEN game_updates(elapse(w, dt), px, mt, dt)
               ELSE elapse(w, dt)
        calls == IF w.gs.game_mode = "GAME" THEN game_led_calls(led)
                 ELSE IF w.gs.game_mode = "SETUP" THEN setup_led_calls(led)
                 ELSE {}
    IN  {e \in calls : effect_writes(e, led, px)}

\* the start of the game as it would be if it left the secondary colours
\* as they were
start_game_keeps_secondary(w) ==
    [w EXCEPT
       !.gs.player1_name = VISITOR_NAMES[w.sb.p1_name_dd],
       !.gs.player2_name = HOME_NAMES[w.sb.p2_name_dd],
       !.gs.player1_primary_color = custom_colors[w.sb.p1_pri_color_dd],
       !.gs.player2_primary_color = custom_colors[w.sb.p2_pri_color_dd]]

\* Scoreboard.run, start of game: both sides ready in SETUP
start_game(w) ==
    [w EXCEPT
       !.gs.player1_name = VISITOR_NAMES[w.sb.p1_name_dd],
       !.gs.player2_name = HOME_NAMES[w.sb.p2_name_dd],
       !.gs.player1_primary_color = custom_colors[w.sb.p1_pri_color_dd],
       !.gs.player2_primary_color = custom_colors[w.sb.p2_pri_color_dd],
       !.gs.player1_secondary_color =
           IF secondary_color_names[w.sb.p1_sec_color_dd] = "None" THEN None
           ELSE custom_colors[w.sb.p1_sec_color_dd - 1],
       !.gs.player2_secondary_color =
           IF secondary_color_names[w.sb.p2_sec_color_dd] = "None" THEN None
           ELSE custom_colors[w.sb.p2_sec_color_dd - 1]]

\* Scoreboard.stop_video
stop_video(w) == [w EXCEPT !.gs.game_mode = "GAME"]

\* Scoreboard.play_video_hardware: the player starts, or it cannot be
\* started and the game begins at once
play_video_hardware(w, started) ==
    IF started THEN [w EXCEPT !.gs.game_mode = "VIDEO"] ELSE stop_video(w)

\* ------------------------------------------------------------------------
\* Actions
\* ------------------------------------------------------------------------
World == [gs |-> game_state, sb |-> board]

Becomes(w) ==
    /\ run_pc = "loop"
    /\ game_state' = w.gs
    /\ board' = w.sb
    /\ UNCHANGED <<pixels, motor, gpio_thread, run_pc, picker, color_file>>

\* The goal and shot sensors (Scoreboard.setup_gpio): gpiozero calls the
\* handler at a falling edge, whatever the game mode.  The keys U, I, J, K
\* of Scoreboard.run call the same handlers, in GAME mode while the game is
\* not over, and so add no step of their own.  An edge is delivered only
\* while an accepted edge keeps the counters within the bounds.
UsaGoalSensor ==
    /\ \/ game_state.game_over \/ Truthy(game_state.goal_celebration_team)
       \/ /\ game_state.usa_score < MaxScore
          /\ game_state.recent_sog_timer > 0 \/ game_state.usa_sog < MaxSog
    /\ Becomes(handle_usa_goal(World, pixels))

UssrGoalSensor ==
    /\ \/ game_state.game_over \/ Truthy(game_state.goal_celebration_team)
       \/ /\ game_state.ussr_score < MaxScore
          /\ game_state.recent_sog_timer > 0 \/ game_state.ussr_sog < MaxSog
    /\ Becomes(handle_ussr_goal(World, pixels))

UsaSogSensor ==
    /\ \/ game_state.game_over \/ Truthy(game_state.goal_celebration_team)
       \/ game_state.usa_sog < MaxSog
    /\ Becomes(handle_usa_sog(World))

UssrSogSensor ==
    /\ \/ game_state.game_over \/ Truthy(game_state.goal_celebration_team)
       \/ game_state.ussr_sog < MaxSog
    /\ Becomes(handle_ussr_sog(World))

\* A faceoff sensor edge (posted as an event) or the key F / G, in any mode
Player1Faceoff ==
    /\ game_state.game_mode \in {"SETUP", "VIDEO", "GAME"}
    /\ Becomes(handle_player1_faceoff(World, pixels, motor))

Player2Faceoff ==
    /\ game_state.game_mode \in {"SETUP", "VIDEO", "GAME"}
    /\ Becomes(handle_player2_faceoff(World, pixels, motor))

VolumeButton ==
    /\ game_state.game_mode \in {"SETUP", "VIDEO", "GAME"}
    /\ Becomes(handle_volume_button_press(World))

\* the volume button pressed after the game is over: the new-game reset
ResetButton ==
    /\ game_state.game_over
    /\ VolumeButton

\* key '.' in GAME mode
KeyPeriod ==
    /\ game_state.game_mode = "GAME"
    /\ Becomes([World EXCEPT !.gs.time_multiplier =
           IF @ + 1 < MaxMultiplier THEN @ + 1 ELSE MaxMultiplier])

\* key ',' in GAME mode
KeyComma ==
    /\ game_state.game_mode = "GAME"
    /\ Becomes([World EXCEPT !.gs.time_multiplier =
           IF @ - 1 > MinMultiplier THEN @ - 1 ELSE MinMultiplier])

\* key R in GAME mode
KeyR ==
    /\ game_state.game_mode = "GAME"
    /\ Becomes([World EXCEPT !.gs = [reset(World.gs) EXCEPT !.game_mode = "SETUP"]])

\* one iteration of the frame loop in SETUP mode
FrameSetup ==
    /\ game_state.game_mode = "SETUP"
    /\ \E dt \in DtValues :
         IF game_state.player1_ready /\ game_state.player2_ready
         THEN \E started \in BOOLEAN :
                Becomes(play_video_hardware(start_game(frame_head(World, dt)),
                                            started))
         ELSE Becomes(setup_leds(frame_head(World, dt), pixels))

\* one iteration of the frame loop in VIDEO mode
FrameVideo ==
    /\ game_state.game_mode = "VIDEO"
    /\ run_pc = "loop"
    /\ \E ended \in BOOLEAN :
         IF board.video_interrupt_requested \/ ended
         THEN Becomes([stop_video(World) EXCEPT
                          !.sb.video_interrupt_requested = FALSE])
         ELSE UNCHANGED vars

\* one iteration of the frame loop in GAME mode
FrameGame ==
    /\ game_state.game_mode = "GAME"
    /\ \E dt \in DtValues :
         Becomes(game_frame(frame_head(World, dt), pixels, motor, dt))

Init ==
    /\ game_state = reset(GameStateFields)
    /\ board = BoardFields
    /\ pixels \in BOOLEAN
    /\ motor \in BOOLEAN
    /\ gpio_thread = "idle"
    /\ run_pc = "loop"
    /\ picker = ColorPickerFields
    /\ color_file = ScoreboardColorFile

Next ==
    \/ UsaGoalSensor \/ UssrGoalSensor \/ UsaSogSensor \/ UssrSogSensor
    \/ Player1Faceoff \/ Player2Faceoff \/ ResetButton
    \/ KeyR
    \/ FrameSetup \/ FrameVideo \/ FrameGame

Spec == Init /\ [][Next]_vars

\* The clock and the speed keys alone: faceoffs, frames and the keys '.',
\* ',' and R, with time_multiplier ranging over all it can reach.
NextSpeed ==
    \/ Player1Faceoff \/ Player2Faceoff
    \/ KeyPeriod \/ KeyComma \/ KeyR
    \/ FrameSetup \/ FrameVideo \/ FrameGame

SpecSpeed == Init /\ [][NextSpeed]_vars

\* The goal sensors as gpiozero runs them (Scoreboard.setup_gpio): the
\* handler is the button's when_pressed callback and runs on gpiozero's
\* callback thread, not on the thread of Scoreboard.run.  The callback
\* thread evaluates the handler's guard in one step and runs the statements
\* under the guard in a later one; the main thread may take steps between
\* the two.  One callback runs at a time.
UsaGoalEnter ==
    /\ gpio_thread = "idle"
    /\ game_state.usa_score < MaxScore
    /\ game_state.recent_sog_timer > 0 \/ game_state.usa_sog < MaxSog
    /\ ~game_state.game_over /\ ~Truthy(game_state.goal_celebration_team)
    /\ gpio_thread' = "handle_usa_goal"
    /\ UNCHANGED <<game_state, board, pixels, motor, run_pc, picker,
                 color_file>>

UsaGoalLeave ==
    /\ gpio_thread = "handle_usa_goal"
    /\ game_state' = usa_goal_accepted(World, pixels).gs
    /\ board' = usa_goal_accepted(World, pixels).sb
    /\ gpio_thread' = "idle"
    /\ UNCHANGED <<pixels, motor, run_pc, picker, color_file>>

UssrGoalEnter ==
    /\ gpio_thread = "idle"
    /\ game_state.ussr_score < MaxScore
    /\ game_state.recent_sog_timer > 0 \/ game_state.ussr_sog < MaxSog
    /\ ~game_state.game_over /\ ~Truthy(game_state.goal_celebration_team)
    /\ gpio_thread' = "handle_ussr_goal"
    /\ UNCHANGED <<game_state, board, pixels, motor, run_pc, picker,
                 color_file>>

UssrGoalLeave ==
    /\ gpio_thread = "handle_ussr_goal"
    /\ game_state' = ussr_goal_accepted(World, pixels).gs
    /\ board' = ussr_goal_accepted(World, pixels).sb
    /\ gpio_thread' = "idle"
    /\ UNCHANGED <<pixels, motor, run_pc, picker, color_file>>

\* The two threads: goal callbacks on gpiozero's thread, faceoff events,
\* the key R and the frames on the main thread.
NextThreads ==
    \/ UsaGoalEnter \/ UsaGoalLeave \/ UssrGoalEnter \/ UssrGoalLeave
    \/ Player1Faceoff \/ Player2Faceoff
    \/ KeyR
    \/ FrameSetup \/ FrameVideo \/ FrameGame

SpecThreads == Init /\ [][NextThreads]_vars

\* A mouse click on an entry of an expanded dropdown (Scoreboard.run, the
\* mouse branch of SETUP mode): the dropdown's selected_index becomes the
\* entry's index, and the SETUP branch of the same loop iteration starts the
\* scan animation if a colour selection has changed.
DropdownOptions ==
    [ p1_name_dd |-> VISITOR_NAMES, p2_name_dd |-> HOME_NAMES,
      p1_pri_color_dd |-> custom_colors, p2_pri_color_dd |-> custom_colors,
      p1_sec_color_dd |-> secondary_color_names,
      p2_sec_color_dd |-> secondary_color_names ]

ColorDropdowns ==
    {"p1_pri_color_dd", "p1_sec_color_dd", "p2_pri_color_dd", "p2_sec_color_dd"}

ClickDropdown(dd) ==
    /\ game_state.game_mode = "SETUP"
    /\ game_state.show_rfid_popup_for_player = 0
    /\ \E i \in 1..Len(DropdownOptions[dd]) :
         /\ i <= MaxOption
         /\ board[dd] # i
         /\ Becomes(IF dd \in ColorDropdowns
                    THEN trigger_scan_animation([World EXCEPT !.sb[dd] = i])
                    ELSE [World EXCEPT !.sb[dd] = i])

SelectOption == \E dd \in DOMAIN DropdownOptions : ClickDropdown(dd)

\* The setup screen: dropdown clicks, ready buttons, the start of the game,
\* the intro video, faceoffs in GAME mode and the key R back to SETUP.
NextSetup ==
    \/ SelectOption
    \/ Player1Faceoff \/ Player2Faceoff
    \/ KeyR
    \/ FrameSetup \/ FrameVideo

SpecSetup == Init /\ [][NextSetup]_vars

\* The LED strip: a colour click of player 1 that starts the scan
\* animation, USA goals that start the goal animation, faceoffs, frames and
\* the key R.
SelectP1Secondary == ClickDropdown("p1_sec_color_dd")

NextLeds ==
    \/ SelectP1Secondary
    \/ UsaGoalSensor
    \/ Player1Faceoff \/ Player2Faceoff
    \/ KeyR
    \/ FrameSetup \/ FrameVideo \/ FrameGame

SpecLeds == Init /\ [][NextLeds]_vars

\* The RFID readers and the ways out of the frame loop.  No card is
\* presented and no save dialog is open: a poll finds no card or raises.
\* Scoreboard.__init__ builds both readers, the away reader only, or none.
InitReaders ==
    /\ game_state = reset(GameStateFields)
    /\ \E built \in {<<FALSE, FALSE>>, <<TRUE, FALSE>>, <<TRUE, TRUE>>} :
          board = [BoardFields EXCEPT !.reader_away = built[1],
                                      !.reader_home = built[2]]
    /\ pixels \in BOOLEAN
    /\ motor \in BOOLEAN
    /\ gpio_thread = "idle"
    /\ run_pc = "loop"
    /\ picker = ColorPickerFields
    /\ color_file = ScoreboardColorFile

\* the statements behind the frame loop: clear_leds, pygame.quit, sys.exit
Exits(w) ==
    /\ run_pc = "loop"
    /\ game_state' = w.gs
    /\ board' = clear_leds(w, pixels).sb
    /\ run_pc' = "exit"
    /\ UNCHANGED <<pixels, motor, gpio_thread, picker, color_file>>

\* an exception leaves the frame in world w: run has no handler, and none
\* of the statements behind the loop is executed
Raises(w) ==
    /\ run_pc = "loop"
    /\ game_state' = w.gs
    /\ board' = w.sb
    /\ run_pc' = "raised"
    /\ UNCHANGED <<pixels, motor, gpio_thread, picker, color_file>>

\* the event pygame.QUIT
QuitEvent ==
    /\ game_state.game_mode \in {"SETUP", "VIDEO", "GAME"}
    /\ Exits(World)

\* key ESC: it closes the save dialog if one is open and ends the loop
\* otherwise
KeyEscape ==
    /\ game_state.game_mode \in {"SETUP", "VIDEO", "GAME"}
    /\ IF game_state.show_rfid_popup_for_player # 0
       THEN Becomes([World EXCEPT !.gs.show_rfid_popup_for_player = 0])
       ELSE Exits(World)

\* the RFID polling of SETUP mode with no save dialog open: each reader
\* that exists is read, away first; raises[i] tells whether the read of
\* reader i raises.  The result tells whether the exception leaves the poll.
setup_poll_raises(w, raises) ==
    \/ w.sb.reader_away /\ raises[1]
    \/ w.sb.reader_home /\ raises[2]

\* one iteration of the frame loop in SETUP mode with frame_counter a
\* multiple of 15
FrameSetupPoll ==
    /\ game_state.game_mode = "SETUP"
    /\ \E dt \in DtValues, raises \in BOOLEAN \X BOOLEAN :
         LET w == frame_head(World, dt) IN
         IF setup_poll_raises(w, raises) THEN Raises(w)
         ELSE IF w.gs.player1_ready /\ w.gs.player2_ready
         THEN \E started \in BOOLEAN :
                Becomes(play_video_hardware(start_game(w), started))
         ELSE Becomes(setup_leds(w, pixels))

\* the RFID polling of GAME mode for one reader: the reader is built anew
\* and read; an exception of either is caught and leaves no reader; a
\* card that is read outside the reader's cooldown plays the faceoff sound
\* and starts the cooldown
game_poll(w, reader, built, raises, card_id) ==
    LET ok == built /\ ~raises IN
    IF w.gs.goal_celebration_team # None THEN w
    ELSE IF reader = "reader_away"
    THEN [w EXCEPT !.sb.reader_away = ok,
                   !.gs.rfid_away_cooldown_end_time =
                       IF ok /\ @ < 0 /\ card_id # NoCard
                       THEN CooldownMs ELSE @]
    ELSE [w EXCEPT !.sb.reader_home = ok,
                   !.gs.rfid_home_cooldown_end_time =
                       IF ok /\ @ < 0 /\ card_id # NoCard
                       THEN CooldownMs ELSE @]

\* one iteration of the frame loop in GAME mode with frame_counter % 60 at
\* 0 (the away reader is polled) or at 30 (the home reader is polled)
FrameGamePoll ==
    /\ game_state.game_mode = "GAME"
    /\ \E dt \in DtValues, reader \in {"reader_away", "reader_home"},
          built \in BOOLEAN, raises \in BOOLEAN :
         LET w == game_updates(frame_head(World, dt), pixels, motor, dt)
         IN  Becomes(game_leds(game_poll(w, reader, built, raises, NoCard),
                               pixels))

NextReaders ==
    \/ QuitEvent
    \/ KeyEscape
    \/ Player1Faceoff \/ Player2Faceoff
    \/ KeyR
    \/ FrameSetup \/ FrameSetupPoll
    \/ FrameVideo
    \/ FrameGame \/ FrameGamePoll

SpecReaders == InitReaders /\ [][NextReaders]_vars

\* The RFID cards: both readers are built, the Player Store starts empty
\* or with a profile of the away side under the card, the card is presented
\* to the away reader only, and no read raises.  The game starts from the ready buttons of the setup screen and
\* is left again with the key R.
ScanDts == {DtScan, DtStall}

StoredProfile ==
    [name |-> VISITOR_NAMES[Len(VISITOR_NAMES)],
     primary_color |-> custom_colors[Len(custom_colors)],
     secondary_color |-> "None"]

InitCards ==
    /\ game_state = reset(GameStateFields)
    /\ \E stored \in {NoProfile, StoredProfile} :
          board = [BoardFields EXCEPT !.reader_away = TRUE,
                                      !.reader_home = TRUE,
                                      !.players["12345"] = stored]
    /\ pixels = TRUE
    /\ motor = FALSE
    /\ gpio_thread = "idle"
    /\ run_pc = "loop"
    /\ picker = ColorPickerFields
    /\ color_file = ScoreboardColorFile

\* a click on the Save button of a side
ClickSave ==
    /\ game_state.game_mode = "SETUP"
    /\ game_state.show_rfid_popup_for_player = 0
    /\ \E player_num \in {1, 2} :
         Becomes([World EXCEPT !.gs.show_rfid_popup_for_player = player_num])

\* key ESC while a save dialog is open
CloseDialog ==
    /\ game_state.show_rfid_popup_for_player # 0
    /\ KeyEscape

\* a click on the ready button of a side
ClickReady ==
    /\ game_state.game_mode = "SETUP"
    /\ game_state.show_rfid_popup_for_player = 0
    /\ \/ Becomes(handle_player1_faceoff(World, pixels, motor))
       \/ Becomes(handle_player2_faceoff(World, pixels, motor))

\* a click in the name or the secondary colour dropdown of the away side
SelectP1Option ==
    \E dd \in {"p1_name_dd", "p1_sec_color_dd"} : ClickDropdown(dd)

\* one iteration of the frame loop in SETUP mode with frame_counter a
\* multiple of 15 and the card card_away on the away reader
FrameSetupScan ==
    /\ game_state.game_mode = "SETUP"
    /\ \E dt \in ScanDts, card_away \in Cards \cup {NoCard} :
         LET w == setup_poll(frame_head(World, dt), card_away, NoCard,
                             pixels)
         IN  IF w.gs.player1_ready /\ w.gs.player2_ready
             THEN \E started \in BOOLEAN :
                    Becomes(play_video_hardware(start_game(w), started))
             ELSE Becomes(setup_leds(w, pixels))

\* one iteration of the frame loop in GAME mode in which a reader is
\* polled and the card card_away is on the away reader
FrameGameScan ==
    /\ game_state.game_mode = "GAME"
    /\ \E dt \in ScanDts, reader \in {"reader_away", "reader_home"},
          card_away \in Cards \cup {NoCard} :
         LET w == game_updates(frame_head(World, dt), pixels, motor, dt)
             card_id == IF reader = "reader_away" THEN card_away ELSE NoCard
         IN  Becomes(game_leds(game_poll(w, reader, TRUE, FALSE, card_id),
                               pixels))

NextCards ==
    \/ ClickSave
    \/ CloseDialog
    \/ ClickReady
    \/ SelectP1Option
    \/ FrameSetupScan
    \/ FrameVideo
    \/ FrameGameScan
    \/ KeyR

SpecCards == InitCards /\ [][NextCards]_vars

\* The colour picker: it is constructed next to a colour file and loads it,
\* keys are pressed, and it is left and started again on the file it has
\* written.  The colour values are not edited.
PickerWorld == [pk |-> picker, file |-> color_file]

PickerBecomes(pw) ==
    /\ picker' = pw.pk
    /\ color_file' = pw.file
    /\ UNCHANGED <<game_state, board, pixels, motor, gpio_thread, run_pc>>

\* the colour files the picker is first started on: none, an empty one, one
\* in the old 4-field form, one in both forms, one with a line of 3 fields,
\* one with a colour value that is no integer, and one of a single colour
PickerFiles ==
    { NoFile,
      FileOf(<<>>),
      FileOf(<< <<"Red", "255", "0", "0">>, <<"Blue", "0", "0", "255">> >>),
      FileOf(<< <<"Red", "255", "0", "0">>,
                <<"Blue", "0", "0", "255", "0", "0", "200">> >>),
      FileOf(<< <<"Red", "255", "0", "0", "200", "0", "0">>,
                <<"Blue", "0", "0">>,
                <<"Green", "0", "255", "0", "0", "200", "0">> >>),
      FileOf(<< <<"Red", "255", "0", "0", "200", "0", "0">>,
                <<"Blue", "0", "0", "bright", "0", "0", "200">>,
                <<"Green", "0", "255", "0", "0", "200", "0">> >>),
      FileOf(<< <<"Red", "255", "0", "0", "200", "0", "0">> >>) }

\* the names that are typed: one that an entry of the defaults has, and one
\* with a comma
TypedNames == { <<"Black">>, <<"Teal", "dark">> }

InitPicker ==
    /\ game_state = reset(GameStateFields)
    /\ board = BoardFields
    /\ pixels = FALSE
    /\ motor = FALSE
    /\ gpio_thread = "idle"
    /\ run_pc = "loop"
    /\ picker = ColorPickerFields
    /\ color_file \in PickerFiles

\* load_colors has run: it leaves at least one entry
Loaded == picker.saved_colors # <<>>

\* the rest of ColorPicker.__init__: load_colors and the selection
LoadColors == ~Loaded /\ PickerBecomes(start_picker(color_file))

NotSaving == Loaded /\ ~picker.is_saving

KeyUp == NotSaving /\ PickerBecomes(key_up(PickerWorld))
KeyDown == NotSaving /\ PickerBecomes(key_down(PickerWorld))
KeyPageUp == NotSaving /\ PickerBecomes(key_pageup(PickerWorld))
KeyPageDown == NotSaving /\ PickerBecomes(key_pagedown(PickerWorld))
KeyS == NotSaving /\ PickerBecomes(key_s(PickerWorld))
KeyA ==
    /\ NotSaving
    /\ Len(picker.saved_colors) < MaxColors
    /\ PickerBecomes(key_a(PickerWorld))
KeyDelete == NotSaving /\ PickerBecomes(key_delete(PickerWorld))

\* the keys that replace the text of the name being entered
TypeName ==
    /\ picker.is_saving
    /\ \E text \in TypedNames :
         PickerBecomes([PickerWorld EXCEPT !.pk.input_text = text])

KeyReturn == picker.is_saving /\ PickerBecomes(key_return(PickerWorld))
KeyEscapeName == picker.is_saving /\ PickerBecomes(key_escape(PickerWorld))

\* ESC or the quit event, and the picker started again
Restart == NotSaving /\ PickerBecomes(start_picker(color_file))

NextPicker ==
    \/ KeyUp \/ KeyDown \/ KeyPageUp \/ KeyPageDown
    \/ KeyS \/ TypeName \/ KeyReturn \/ KeyEscapeName
    \/ KeyA \/ KeyDelete
    \/ LoadColors \/ Restart

SpecPicker == InitPicker /\ [][NextPicker]_vars

\* Sound: the keys M, + and -, the volume encoder and its button, next to
\* the game they are pressed in, on a Raspberry Pi (where the mixer is
\* driven) without LED strip and motor.
KeyM ==
    /\ game_state.game_mode \in {"SETUP", "VIDEO", "GAME"}
    /\ Becomes(toggle_mute(World))

KeyPlus ==
    /\ game_state.game_mode \in {"SETUP", "VIDEO", "GAME"}
    /\ Becomes(increase_volume(World))

KeyMinus ==
    /\ game_state.game_mode \in {"SETUP", "VIDEO", "GAME"}
    /\ Becomes(decrease_volume(World))

InitVolume ==
    /\ game_state = reset(GameStateFields)
    /\ board = BoardFields
    /\ pixels = FALSE
    /\ motor = FALSE
    /\ gpio_thread = "idle"
    /\ run_pc = "loop"
    /\ picker = ColorPickerFields
    /\ color_file = ScoreboardColorFile

NextVolume ==
    \/ KeyM \/ KeyPlus \/ KeyMinus \/ VolumeButton
    \/ UsaGoalSensor
    \/ Player1Faceoff \/ Player2Faceoff
    \/ KeyR
    \/ FrameSetup \/ FrameVideo \/ FrameGame

SpecVolume == InitVolume /\ [][NextVolume]_vars

\* Regulation without input: sensor edges, faceoffs and keys arrive until
\* the first faceoff of the game has started the clock; from then on only
\* the frame loop runs, every frame with at least one millisecond on the
\* clock of pygame.
BeforeFaceoff ==
    \/ game_state.game_mode # "GAME"
    \/ /\ ~game_state.game_active
       /\ game_state.period = 1
       /\ game_state.game_clock = PeriodClock
       /\ ~game_state.intermission_active
       /\ ~game_state.overtime_active
       /\ ~game_state.game_over

TickDts == {DtStall \div 4, DtStall \div 2, DtStall}

EarlyUsaGoal == BeforeFaceoff /\ UsaGoalSensor
EarlyUssrGoal == BeforeFaceoff /\ UssrGoalSensor
EarlyFaceoff == BeforeFaceoff /\ Player1Faceoff
EarlyFaceoff2 == BeforeFaceoff /\ Player2Faceoff
EarlyFrameSetup == BeforeFaceoff /\ FrameSetup
EarlyFrameVideo == BeforeFaceoff /\ FrameVideo

\* one iteration of the frame loop in GAME mode in which clock.tick reports
\* at least one millisecond
FrameTick ==
    /\ game_state.game_mode = "GAME"
    /\ \E dt \in TickDts :
         Becomes(game_frame(frame_head(World, dt), pixels, motor, dt))

NextRegulation ==
    \/ EarlyUsaGoal \/ EarlyUssrGoal
    \/ EarlyFaceoff \/ EarlyFaceoff2
    \/ EarlyFrameSetup \/ EarlyFrameVideo
    \/ FrameTick

\* the frame loop keeps running
SpecRegulation ==
    InitVolume /\ [][NextRegulation]_vars /\ WF_vars(FrameTick)

\* ------------------------------------------------------------------------
\* Properties
\* ------------------------------------------------------------------------
InGame == game_state.game_mode = "GAME"
Celebrating == game_state.goal_celebration_team # None

\* C1: in GAME mode an accepted goal edge raises the scoring side's score
\* by exactly 1 and leaves the other score alone; an edge arriving during a
\* goal celebration or after game over changes neither score and starts no
\* celebration.  Stated of the handlers in every reachable state and of
\* every step that changes a score.
C1_GoalEdge ==
    /\ [](InGame =>
          LET u == handle_usa_goal(World, pixels).gs
              r == handle_ussr_goal(World, pixels).gs
          IN  IF game_state.game_over \/ Celebrating
              THEN /\ u.usa_score = game_state.usa_score
                   /\ u.ussr_score = game_state.ussr_score
                   /\ u.goal_celebration_team = game_state.goal_celebration_team
                   /\ u.goal_animation_timer = game_state.goal_animation_timer
                   /\ r.usa_score = game_state.usa_score
                   /\ r.ussr_score = game_state.ussr_score
                   /\ r.goal_celebration_team = game_state.goal_celebration_team
                   /\ r.goal_animation_timer = game_state.goal_animation_timer
              ELSE /\ u.usa_score = game_state.usa_score + 1
                   /\ u.ussr_score = game_state.ussr_score
                   /\ r.ussr_score = game_state.ussr_score + 1
                   /\ r.usa_score = game_state.usa_score)
    /\ [][ (InGame /\ InGame' /\
              \/ game_state'.usa_score # game_state.usa_score
              \/ game_state'.ussr_score # game_state.ussr_score)
           => /\ ~game_state.game_over /\ ~Celebrating
              /\ \/ /\ game_state'.usa_score = game_state.usa_score + 1
                    /\ game_state'.ussr_score = game_state.ussr_score
                 \/ /\ game_state'.ussr_score = game_state.ussr_score + 1
                    /\ game_state'.usa_score = game_state.usa_score ]_vars

\* C1 witness: a goal was accepted and its celebration is in progress
C1_Witness ==
    /\ InGame /\ Celebrating /\ ~game_state.game_over
    /\ game_state.usa_score = 1 /\ game_state.ussr_score = 0

\* C2: no step lowers a score or a shots-on-goal counter, except the
\* new-game reset (key R, or the volume button after game over), which
\* sets all four to 0.
C2_CountersMonotone ==
    [][ \/ /\ game_state'.usa_score >= game_state.usa_score
           /\ game_state'.ussr_score >= game_state.ussr_score
           /\ game_state'.usa_sog >= game_state.usa_sog
           /\ game_state'.ussr_sog >= game_state.ussr_sog
        \/ /\ InGame /\ game_state'.game_mode = "SETUP"
           /\ game_state'.usa_score = 0 /\ game_state'.ussr_score = 0
           /\ game_state'.usa_sog = 0 /\ game_state'.ussr_sog = 0 ]_vars

\* C2 witness: all four counters have been raised within a game
C2_Witness ==
    /\ InGame
    /\ game_state.usa_score >= 1 /\ game_state.ussr_score >= 1
    /\ game_state.usa_sog >= 1 /\ game_state.ussr_sog >= 1

\* Elapsed times the clock contract is evaluated for
ClockDts == {0, 1, 16, 17, 1000, 59999, 60000, DtStall, 1200000, 1200001}

\* C3: game_clock stays within 0 .. 1,200,000 ms for every multiplier the
\* speed keys can reach, and update_clock clamps to exactly 0 when the
\* decrement dt * time_multiplier reaches or passes the remaining time.
C3_ClockRange ==
    /\ game_state.game_clock >= 0 /\ game_state.game_clock <= PeriodClock
    /\ game_state.time_multiplier >= MinMultiplier
    /\ game_state.time_multiplier <= MaxMultiplier
    /\ \A dt \in ClockDts :
         LET c == update_clock(game_state, dt).game_clock
             dec == dt * game_state.time_multiplier
         IN  /\ c >= 0 /\ c <= PeriodClock
             /\ IF game_state.game_active /\ game_state.game_clock > 0
                THEN c = IF dec >= game_state.game_clock THEN 0
                         ELSE game_state.game_clock - dec
                ELSE c = game_state.game_clock

\* C3 witness: the clock has run and the next stalled frame overshoots it,
\* at the fastest speed
C3_Witness ==
    /\ InGame /\ game_state.game_active
    /\ game_state.time_multiplier = MaxMultiplier
    /\ game_state.game_clock > 0 /\ game_state.game_clock < PeriodClock
    /\ game_state.game_clock < DtStall * game_state.time_multiplier

\* C4: the frame in which the clock reaches 0 in period 1 or 2 ends in an
\* intermission whose 3 * FPS timer has started (and has counted that
\* frame), with the game neither active nor over and the period unchanged;
\* the game is over only in period 3.
C4_PeriodEndIntermission ==
    /\ [][ (/\ game_state.game_clock > 0 /\ game_state'.game_clock = 0
            /\ game_state.period < 3)
           => /\ game_state'.intermission_active
              /\ game_state'.intermission_timer = 3 * FPS - 1
              /\ ~game_state'.game_active
              /\ ~game_state'.game_over
              /\ ~game_state'.overtime_active
              /\ game_state'.period = game_state.period ]_vars
    /\ [](game_state.game_over => game_state.period = 3)

\* C4 witness: the intermission after period 2, in its first frame
C4_Witness ==
    /\ game_state.period = 2 /\ game_state.game_clock = 0
    /\ game_state.intermission_active
    /\ game_state.intermission_timer = 3 * FPS - 1
    /\ game_state.usa_score # game_state.ussr_score

\* C5: the frame in which the clock reaches 0 in period 3 with equal scores
\* ends with the clock at 0, the intermission and overtime both on and the
\* game not over; overtime never starts without an intermission.
C5_TieEntersSuddenDeath ==
    /\ [][ (/\ game_state.game_clock > 0 /\ game_state'.game_clock = 0
            /\ game_state.period = 3
            /\ game_state.usa_score = game_state.ussr_score)
           => /\ game_state'.game_clock = 0
              /\ game_state'.intermission_active
              /\ game_state'.overtime_active
              /\ ~game_state'.game_over
              /\ game_state'.period = 3 ]_vars
    /\ [][ (~game_state.overtime_active /\ game_state'.overtime_active)
           => /\ game_state'.intermission_active
              /\ ~game_state'.game_over
              /\ game_state'.usa_score = game_state'.ussr_score ]_vars

\* C5 witness: sudden death announced after a 1-1 tie
C5_Witness ==
    /\ game_state.period = 3 /\ game_state.game_clock = 0
    /\ game_state.overtime_active /\ game_state.intermission_active
    /\ ~game_state.game_over
    /\ game_state.usa_score = 1 /\ game_state.ussr_score = 1

\* C6: the frame in which the clock reaches 0 in period 3 with unequal
\* scores ends with the game over, no intermission and no overtime, and
\* the side with the higher score recorded as winner (its name, and its
\* primary colour for the win animation when the strip is present).
C6_RegulationWinner ==
    [][ (/\ game_state.game_clock > 0 /\ game_state'.game_clock = 0
         /\ game_state.period = 3
         /\ game_state.usa_score # game_state.ussr_score)
        => /\ game_state'.game_over
           /\ ~game_state'.intermission_active
           /\ ~game_state'.overtime_active
           /\ game_state'.game_end_celebration_active
           /\ IF game_state.ussr_score > game_state.usa_score
              THEN /\ game_state'.winner_name = game_state.player1_name
                   /\ pixels => game_state'.goal_animation_color
                                  = game_state.player1_primary_color
              ELSE /\ game_state'.winner_name = game_state.player2_name
                   /\ pixels => game_state'.goal_animation_color
                                  = game_state.player2_primary_color ]_vars

\* C6 witness: regulation ended with USSR ahead and USSR recorded as winner
C6_Witness ==
    /\ game_state.game_over /\ game_state.game_end_celebration_active
    /\ ~game_state.overtime_active /\ game_state.period = 3
    /\ game_state.ussr_score > game_state.usa_score
    /\ game_state.winner_name = "USSR"

\* C7: in sudden death (overtime on, game not over) a goal edge from either
\* side ends the game in the handler, records the scoring side as winner
\* and enters no goal celebration.
C7_SuddenDeathGoal ==
    (InGame /\ game_state.overtime_active /\ ~game_state.game_over) =>
        LET u == handle_usa_goal(World, pixels).gs
            r == handle_ussr_goal(World, pixels).gs
        IN  /\ u.game_over /\ u.winner_name = game_state.player2_name
            /\ u.goal_celebration_team = None
            /\ r.game_over /\ r.winner_name = game_state.player1_name
            /\ r.goal_celebration_team = None

\* C8 as stated: once the 5 * FPS timer started by an accepted goal has
\* run down, the celebration is over and play is active again.
C8_CelebrationEndsByTimer ==
    (/\ InGame /\ pixels /\ ~game_state.game_over
     /\ game_state.goal_animation_active
     /\ game_state.goal_animation_timer = 0)
    => (~Celebrating /\ game_state.game_active)

\* C8 amended: while the game is not over no frame ends a goal celebration,
\* whatever time it reports; the celebration ends at the next accepted
\* faceoff edge, which unsets goal_celebration_team and sets game_active.
C8_CelebrationEndsAtFaceoff ==
    (InGame /\ Celebrating /\ ~game_state.game_over) =>
        /\ \A dt \in DtValues :
             game_frame(World, pixels, motor, dt).gs.goal_celebration_team
                 = game_state.goal_celebration_team
        /\ ~game_state.motor_active =>
             LET f == handle_player1_faceoff(World, pixels, motor).gs
                 g == handle_player2_faceoff(World, pixels, motor).gs
             IN  /\ f.goal_celebration_team = None /\ f.game_active
                 /\ g.goal_celebration_team = None /\ g.game_active

\* C8 witness: the 5 * FPS frames have passed and the celebration goes on
C8_Witness ==
    /\ InGame /\ pixels /\ Celebrating /\ ~game_state.game_over
    /\ game_state.goal_animation_active
    /\ game_state.goal_animation_timer = 0
    /\ ~game_state.game_active

\* C9: during an intermission every frame counts the timer down by one;
\* the frame that brings it to 0 ends the intermission and, unless the
\* intermission announces sudden death, adds 1 to period, resets the clock
\* to the period duration and makes the game active; before sudden death
\* period and clock stay as they are.  Only that frame or a reset ends an
\* intermission.
C9_IntermissionEnds ==
    [][ (game_state.intermission_active /\ game_state' # game_state) =>
          IF game_state'.intermission_timer = game_state.intermission_timer
          THEN /\ game_state'.intermission_active
               /\ game_state'.period = game_state.period
               /\ game_state'.game_clock = game_state.game_clock
          ELSE IF game_state'.game_mode = "SETUP"
          THEN ~game_state'.intermission_active
          ELSE /\ game_state'.intermission_timer
                    = game_state.intermission_timer - 1
               /\ game_state'.intermission_active
                    = (game_state'.intermission_timer > 0)
               /\ IF game_state'.intermission_active
                     \/ game_state.overtime_active
                  THEN /\ game_state'.period = game_state.period
                       /\ game_state'.game_clock = game_state.game_clock
                  ELSE /\ game_state'.period = game_state.period + 1
                       /\ game_state'.game_clock = PeriodClock
                       /\ game_state'.game_active ]_vars

\* C9 witness: period 2 running after the first intermission ended
C9_Witness ==
    /\ InGame /\ game_state.period = 2 /\ game_state.game_active
    /\ game_state.game_clock = PeriodClock
    /\ ~game_state.intermission_active
    /\ game_state.intermission_timer = 0

\* C10: game over and intermission are never on together.
C10_PhasesExclusive ==
    ~(game_state.game_over /\ game_state.intermission_active)

\* C11: game_clock counts down only during active play: no frame lowers it
\* while a goal celebration is in progress, while intermission_active is
\* true, or after game_over.
C11_ClockOnlyInActivePlay ==
    (/\ InGame
     /\ \/ Celebrating
        \/ game_state.intermission_active
        \/ game_state.game_over) =>
        \A dt \in DtValues :
            game_frame(World, pixels, motor, dt).gs.game_clock
                >= game_state.game_clock

\* C12: sensor handlers run to completion between frame steps, so the
\* rules of the goal edge hold also when an edge fires while the main
\* thread is at work: a score is raised only in a state where the game is
\* not over and no goal celebration is in progress.
C12_HandlersAtomic ==
    [][(\/ game_state'.usa_score > game_state.usa_score
        \/ game_state'.ussr_score > game_state.ussr_score)
       => (~game_state.game_over /\ ~Celebrating)]_vars

\* C13: the relay is never left on while motor_active is false, so that
\* every pulse started by a faceoff is ended by update_motor once
\* MOTOR_RUN_TIME has elapsed, whatever happens in between.
C13_RelayOffWhenInactive ==
    board.motor_on => game_state.motor_active

\* the names and colours of the two sides, as the game holds them
Sides(gs) ==
    <<gs.player1_name, gs.player1_primary_color, gs.player1_secondary_color,
      gs.player2_name, gs.player2_primary_color, gs.player2_secondary_color>>

\* the names and colours the dropdowns show
Selections(sb) ==
    <<VISITOR_NAMES[sb.p1_name_dd], custom_colors[sb.p1_pri_color_dd],
      IF sb.p1_sec_color_dd = 1 THEN None
      ELSE secondary_color_names[sb.p1_sec_color_dd],
      HOME_NAMES[sb.p2_name_dd], custom_colors[sb.p2_pri_color_dd],
      IF sb.p2_sec_color_dd = 1 THEN None
      ELSE secondary_color_names[sb.p2_sec_color_dd]>>

\* C14: game_mode leaves SETUP only in a step that starts with both sides
\* ready; after that step each side's name, primary and secondary colour
\* are the current dropdown selections, with a primary colour set; and no
\* step that begins and ends outside SETUP changes them.
C14_SetupLocksProfiles ==
    [][/\ (game_state.game_mode = "SETUP" /\ game_state'.game_mode # "SETUP")
          => /\ game_state.player1_ready /\ game_state.player2_ready
             /\ Sides(game_state') = Selections(board')
             /\ board' = board
             /\ game_state'.player1_primary_color # None
             /\ game_state'.player2_primary_color # None
       /\ (game_state.game_mode # "SETUP" /\ game_state'.game_mode # "SETUP")
          => Sides(game_state') = Sides(game_state)
       ]_vars

\* C14 witness: a game running with selections that differ from the
\* defaults on both sides
C14_Witness ==
    /\ game_state.game_mode = "GAME"
    /\ game_state.player1_name = "Grandpa"
    /\ game_state.player1_secondary_color = "Default Red"
    /\ game_state.player2_primary_color = "Default Red"
    /\ Sides(game_state) = Selections(board)

\* C15 as stated: a shot edge of a side that arrives right after an
\* accepted goal of that side, with or without a faceoff in between and
\* before any frame has passed, does not raise that side's shot counter.
C15_ShotAfterGoalSuppressed ==
    (InGame /\ ~game_state.game_over /\ ~Celebrating) =>
        LET u == handle_usa_goal(World, pixels)
            r == handle_ussr_goal(World, pixels)
            uf == handle_player2_faceoff(u, pixels, motor)
            rf == handle_player1_faceoff(r, pixels, motor)
        IN  /\ handle_usa_sog(u).gs.usa_sog = u.gs.usa_sog
            /\ handle_usa_sog(uf).gs.usa_sog = u.gs.usa_sog
            /\ handle_ussr_sog(r).gs.ussr_sog = r.gs.ussr_sog
            /\ handle_ussr_sog(rf).gs.ussr_sog = r.gs.ussr_sog

\* C15 amended: the cooldown runs after a shot, not after a goal.  An
\* accepted shot edge raises its side's shot counter by 1 and starts the
\* cooldown of RecentSogFrames frames, which every frame of GAME mode
\* counts down by one; an accepted goal edge raises its side's shot counter
\* by 1 only if no cooldown is running, else leaves it; and a shot edge
\* during a goal celebration or after game over changes nothing.
C15_GoalAfterShotCountsOnce ==
    InGame =>
        LET u == handle_usa_goal(World, pixels).gs
            r == handle_ussr_goal(World, pixels).gs
            j == handle_usa_sog(World)
            k == handle_ussr_sog(World)
            cooling == game_state.recent_sog_timer > 0
        IN  /\ (~game_state.game_over /\ ~Celebrating) =>
                /\ u.usa_sog = game_state.usa_sog + (IF cooling THEN 0 ELSE 1)
                /\ r.ussr_sog = game_state.ussr_sog + (IF cooling THEN 0 ELSE 1)
                /\ u.recent_sog_timer = game_state.recent_sog_timer
                /\ r.recent_sog_timer = game_state.recent_sog_timer
                /\ j.gs.usa_sog = game_state.usa_sog + 1
                /\ k.gs.ussr_sog = game_state.ussr_sog + 1
                /\ j.gs.recent_sog_timer = RecentSogFrames
                /\ k.gs.recent_sog_timer = RecentSogFrames
            /\ (game_state.game_over \/ Celebrating) =>
                (j = World /\ k = World)
            /\ \A dt \in DtValues :
                 game_frame(World, pixels, motor, dt).gs.recent_sog_timer
                    = IF cooling THEN game_state.recent_sog_timer - 1 ELSE 0

\* C15 witness: a USA goal accepted while the cooldown of a USA shot was
\* running: one goal, one shot counted, the celebration in progress
C15_Witness ==
    /\ InGame /\ game_state.goal_celebration_team = "USA"
    /\ game_state.recent_sog_timer > 0
    /\ game_state.usa_score = 1 /\ game_state.usa_sog = 1
    /\ game_state.ussr_sog = 0

\* C17: no scan animation survives leaving SETUP: in GAME mode
\* rfid_scan_animation_active is false.
C17_NoScanInGame ==
    InGame => ~game_state.rfid_scan_animation_active

C18_FullBrightnessOnlyInAnimation ==
    (board.brightness = FullBrightness) => game_state.goal_animation_active

\* C19: whenever run has been left, by the quit event, by ESC or by an
\* exception raised in a frame, the LEDs of the strip are off.
C19_LedsOffOnEveryExit ==
    (run_pc # "loop") => ~board.strip_lit

\* C20: no exception raised by an RFID reader during a poll leaves the
\* frame loop.
C20_PollExceptionStaysInLoop ==
    run_pc # "raised"

SideSelection(sb, player_num) ==
    LET dd == SideDropdowns(player_num)
    IN  [name |-> dd.names[sb[dd.name]],
         primary_color |-> custom_colors[sb[dd.pri]],
         secondary_color |-> secondary_color_names[sb[dd.sec]]]

\* C22, the round trip: whatever a side has selected when a card is scanned
\* in its open save dialog, and whatever it selects afterwards, a load of that
\* card on the same side shows the saved name, primary and secondary colour
\* again.
C22_SaveLoadRoundTrip ==
    \A card_id \in Cards, player_num \in {1, 2} :
      game_state.show_rfid_popup_for_player = player_num =>
      LET dd == SideDropdowns(player_num)
          saved == save_player_profile(World, card_id, player_num)
      IN  \A n \in 1..Len(dd.names), p \in 1..Len(custom_colors),
             s \in 1..Len(secondary_color_names) :
            LET later == [saved EXCEPT !.sb[dd.name] = n, !.sb[dd.pri] = p,
                                       !.sb[dd.sec] = s]
                loaded == load_player_profile(later, card_id, player_num,
                                              pixels)
            IN  /\ SideSelection(loaded.sb, player_num)
                       = SideSelection(board, player_num)
                /\ loaded.sb.players = saved.sb.players

\* C22, the store: with no save dialog open no poll of the readers, whatever
\* cards they read, changes the Player Store.
C22_LoadKeepsStore ==
    game_state.show_rfid_popup_for_player = 0 =>
      \A card_away \in Cards \cup {NoCard}, card_home \in Cards \cup {NoCard} :
        /\ setup_poll(World, card_away, card_home, pixels).sb.players
               = board.players
        /\ \A reader \in {"reader_away", "reader_home"} :
             game_poll(World, reader, TRUE, FALSE, card_away).sb.players
               = board.players

C23_CooldownBlocksReads ==
    \A card_id \in Cards :
      /\ game_state.rfid_away_cooldown_end_time >= 0 =>
           /\ game_state.game_mode = "SETUP" =>
                setup_poll(World, card_id, NoCard, pixels)
                  = setup_poll(World, NoCard, NoCard, pixels)
           /\ game_state.game_mode = "GAME" =>
                game_poll(World, "reader_away", TRUE, FALSE, card_id)
                  = game_poll(World, "reader_away", TRUE, FALSE, NoCard)
      /\ game_state.rfid_home_cooldown_end_time >= 0 =>
           /\ game_state.game_mode = "SETUP" =>
                setup_poll(World, NoCard, card_id, pixels)
                  = setup_poll(World, NoCard, NoCard, pixels)
           /\ game_state.game_mode = "GAME" =>
                game_poll(World, "reader_home", TRUE, FALSE, card_id)
                  = game_poll(World, "reader_home", TRUE, FALSE, NoCard)


\* C24: for every list of colour entries the picker holds, the file that
\* save_colors writes for it is read back by load_colors as the identical
\* ordered list.
C24_SaveLoadColors ==
    Loaded =>
    load_colors(file_of_colors(picker.saved_colors)).saved_colors
        = picker.saved_colors

\* the loaders of the colour file: each gives the list it leaves in memory
\* and the file it leaves behind
Loaders == {"ColorPicker", "Scoreboard"}
LoadedBy(loader, file) ==
    IF loader = "ColorPicker"
    THEN [colors |-> load_colors(file).saved_colors,
          file |-> load_colors(file).file]
    ELSE [colors |-> load_custom_colors(file).custom_colors,
          file |-> load_custom_colors(file).file]

\* C25: loading a colour file with 4-field lines accepts each such line as
\* an entry whose LED and display colours are the RGB of the line and
\* rewrites the file in the 7-field form; a second load gives the same
\* entries and leaves the file as it is.  The files meant have lines of 4
\* or 7 fields with integer colour values, at least one of them of 4.
C25_OldFormatUpgrade ==
    \A loader \in Loaders :
        (/\ color_file.exists
         /\ \A i \in 1..Len(color_file.lines) :
              parse_line(color_file.lines[i]).kind \in {"old", "entry"}
         /\ \E i \in 1..Len(color_file.lines) :
              parse_line(color_file.lines[i]).kind = "old") =>
            LET first == LoadedBy(loader, color_file)
                second == LoadedBy(loader, first.file)
            IN  /\ \A i \in 1..Len(color_file.lines) :
                     Len(color_file.lines[i]) = 4 =>
                        /\ i <= Len(first.colors)
                        /\ first.colors[i] =
                               parse_line(color_file.lines[i]).entry
                        /\ first.colors[i].led = first.colors[i].display
                /\ first.file.exists
                /\ \A i \in 1..Len(first.file.lines) :
                     Len(first.file.lines[i]) = 7
                /\ second.colors = first.colors
                /\ second.file = first.file

\* C26: the DELETE key changes nothing when one entry is left, and the
\* picker always holds at least one entry with its primary and secondary
\* index pointing at entries of the list.
C26_StoreNeverEmpty ==
    Loaded =>
        /\ Len(picker.saved_colors) >= 1
        /\ picker.primary_index \in 0..(Len(picker.saved_colors) - 1)
        /\ picker.secondary_index \in 0..(Len(picker.saved_colors) - 1)
        /\ Len(picker.saved_colors) = 1 =>
               key_delete(PickerWorld) = PickerWorld
\* C27: no two entries of the picker have the same name.
C27_NamesUnique ==
    \A i, j \in 1..Len(picker.saved_colors) :
        picker.saved_colors[i].name = picker.saved_colors[j].name => i = j
\* C28: loading a malformed colour file replaces the whole colour set in
\* memory with the built-in default entries, in the picker and in the
\* scoreboard.  A file is malformed when one of its lines has a field
\* count that is neither 4 nor 7 or a colour value that is no integer.
C28_MalformedFileGivesDefaults ==
    (/\ color_file.exists
     /\ \E i \in 1..Len(color_file.lines) :
          LET parts == color_file.lines[i]
          IN  /\ parts # <<>> /\ parts # <<"">>
              /\ \/ Len(parts) \notin {4, 7}
                 \/ parse_line(parts).kind = "raise") =>
        /\ LoadedBy("ColorPicker", color_file).colors
               \in {PickerDefaults, FallbackDefaults}
        /\ LoadedBy("Scoreboard", color_file).colors
               \in {PickerDefaults, FallbackDefaults,
                    <<Entry(<<"Default">>, <<255, 255, 255>>,
                            <<255, 255, 255>>)>>}

\* what C29 asks of a faceoff edge that takes the world w to after
FaceoffEffect(w, after) ==
    IF w.gs.game_over \/ w.gs.motor_active
    THEN after = w
    ELSE /\ after.gs.goal_celebration_team = None
         /\ ~after.gs.goal_animation_active
         /\ ~after.sb.strip_lit
         /\ after.gs.game_active
         /\ ~after.gs.game_lights_set

\* C29: in GAME mode a faceoff edge while the game is not over and the
\* motor pulse is not running ends the goal celebration (no celebrating
\* team, no goal animation, LEDs off), sets game_active and clears
\* game_lights_set; a faceoff edge while the game is over or the motor
\* pulse is running changes nothing.
C29_FaceoffEndsCelebration ==
    InGame =>
        /\ FaceoffEffect(World, handle_player1_faceoff(World, pixels, motor))
        /\ FaceoffEffect(World, handle_player2_faceoff(World, pixels, motor))

\* the world at the end of a frame of GAME mode that starts in the current
\* state
FrameEnd(dt) == game_frame(frame_head(World, dt), pixels, motor, dt)

\* the frames C30 is about
WashDue(w) ==
    /\ w.gs.game_mode = "GAME"
    /\ ~w.gs.goal_animation_active
    /\ ~w.gs.game_over
    /\ w.gs.game_active \/ w.gs.overtime_active

\* C30: in GAME mode with a strip, at the end of every frame of the loop
\* with no goal animation, the game not over and game_active or
\* overtime_active, the strip shows the pattern of game_active_effect.
C30_WashShown ==
    (InGame /\ pixels /\ run_pc = "loop") =>
        \A dt \in DtValues :
            LET after == FrameEnd(dt)
            IN  WashDue(after) => after.sb.strip_shows = "wash"
\* second period, after the intermission has cleared the strip: the frame
\* that starts here ends with the wash due and shown, and game_active_effect
\* does not write in it because game_lights_set is set
C30_Witness ==
    /\ InGame /\ pixels /\ run_pc = "loop"
    /\ game_state.period = 2
    /\ game_state.game_active
    /\ game_state.game_lights_set
    /\ board.strip_shows = "wash"
    /\ WashDue(FrameEnd(0))
    /\ FrameEnd(0).sb.strip_shows = "wash"
\* a goal edge is accepted in the world w
GoalAccepted(w) == ~w.gs.game_over /\ ~Truthy(w.gs.goal_celebration_team)

\* C31: after an accepted goal the other side's special celebration is
\* cleared (the flag and the colours are set and cleared together), also
\* when the goal ends the game in sudden death.
C31_OtherSideSpecialCleared ==
    (InGame /\ GoalAccepted(World)) =>
        /\ ~handle_usa_goal(World, pixels).gs.ussr_special_celebration
        /\ ~handle_ussr_goal(World, pixels).gs.usa_special_celebration
\* C32: in the step that takes game_mode to GAME, both scores and both
\* shots-on-goal counters are 0 and no goal celebration and no goal
\* animation is pending, whatever sensor edges came during SETUP and VIDEO.
C32_GameStartsClean ==
    [][(game_state.game_mode # "GAME" /\ game_state'.game_mode = "GAME") =>
          /\ game_state'.usa_score = 0 /\ game_state'.ussr_score = 0
          /\ game_state'.usa_sog = 0 /\ game_state'.ussr_sog = 0
          /\ game_state'.goal_celebration_team = None
          /\ ~game_state'.goal_animation_active]_vars
\* C33: in GAME mode a goal edge while play is not live and sudden death
\* is not waiting for its goal (an intermission, or the time before the
\* first faceoff) changes no score and starts no celebration.
C33_GoalOnlyInLivePlay ==
    (InGame /\ ~game_state.game_active /\ ~game_state.overtime_active) =>
        /\ handle_usa_goal(World, pixels) = World
        /\ handle_ussr_goal(World, pixels) = World
\* C34: each side's shots-on-goal counter is at least its score.
C34_ShotsAtLeastScore ==
    /\ game_state.usa_sog >= game_state.usa_score
    /\ game_state.ussr_sog >= game_state.ussr_score
\* C35: whenever game_over is true the recorded winner has the strictly
\* higher score, game_over and the scores stay as they are until a reset,
\* and update_goal_celebration_timer never sets game_over back to false:
\* the celebration timer runs only for the end of the game, so that its
\* expiry takes the branch that leaves game_over alone, and a step from a
\* state with game_over keeps the game over with the scores and the winner
\* as they are, or it is the reset to SETUP.
C35_GameOverIsFinal ==
    /\ [](/\ game_state.game_over =>
              \/ /\ game_state.winner_name = game_state.player1_name
                 /\ game_state.ussr_score > game_state.usa_score
              \/ /\ game_state.winner_name = game_state.player2_name
                 /\ game_state.usa_score > game_state.ussr_score
          /\ game_state.goal_celebration_timer > 0 =>
              /\ game_state.game_end_celebration_active
              /\ game_state.game_over)
    /\ [][game_state.game_over =>
              \/ /\ game_state'.game_over
                 /\ game_state'.usa_score = game_state.usa_score
                 /\ game_state'.ussr_score = game_state.ussr_score
                 /\ game_state'.winner_name = game_state.winner_name
              \/ game_state' =
                     reset([game_state EXCEPT !.game_mode = "SETUP"])]_vars
\* C36: with a strip, after every accepted goal goal_animation_color is
\* the primary colour of the side that scored.
C36_AnimationInScorersColour ==
    (InGame /\ pixels /\ GoalAccepted(World)) =>
        /\ handle_usa_goal(World, pixels).gs.goal_animation_color
               = game_state.player2_primary_color
        /\ handle_ussr_goal(World, pixels).gs.goal_animation_color
               = game_state.player1_primary_color
\* the side whose colours draw_goal_celebration, draw_game_end_celebration
\* and update_goal_celebration_effects use for the name team_name
celebrating_side(gs, team_name) ==
    IF team_name = gs.player1_name THEN "player1" ELSE "player2"

\* C37: after an accepted goal the side treated as celebrating, for the
\* goal and for a win, is the side that scored.
C37_CelebratingSideScored ==
    (InGame /\ GoalAccepted(World)) =>
        LET u == handle_usa_goal(World, pixels).gs
            r == handle_ussr_goal(World, pixels).gs
        IN  /\ Truthy(u.goal_celebration_team) =>
                  celebrating_side(u, u.goal_celebration_team) = "player2"
            /\ u.game_over => celebrating_side(u, u.winner_name) = "player2"
            /\ Truthy(r.goal_celebration_team) =>
                  celebrating_side(r, r.goal_celebration_team) = "player1"
            /\ r.game_over => celebrating_side(r, r.winner_name) = "player1"
\* C38: the is_muted flag agrees with the mute switch of the mixer.
C38_MuteFlagMatchesMixer == game_state.is_muted = board.mixer_muted
\* C39: once a faceoff has started the clock and no input arrives,
\* regulation completes: the periods follow in order, each after an
\* intermission, up to period 3, and the game reaches game_over or sudden
\* death: game_over with unequal scores, sudden death with equal scores.
C39_RegulationCompletes ==
    /\ [](game_state.period \in 1..3)
    /\ [](game_state.game_over => game_state.usa_score # game_state.ussr_score)
    /\ [](game_state.overtime_active =>
              game_state.usa_score = game_state.ussr_score)
    /\ [][\/ game_state'.period = game_state.period
          \/ /\ game_state'.period = game_state.period + 1
             /\ game_state.intermission_active
             /\ ~game_state'.intermission_active]_vars
    /\ (/\ InGame /\ ~BeforeFaceoff
        /\ ~game_state.game_over /\ ~game_state.overtime_active)
          ~> (game_state.period = 3 /\
                 (game_state.game_over \/ game_state.overtime_active))

\* regulation has run to its end without input: the third period is over
\* and the game is decided or waits in sudden death
C39_Witness ==
    /\ InGame /\ ~BeforeFaceoff
    /\ game_state.period = 3
    /\ game_state.game_clock = 0
    /\ game_state.game_over \/ game_state.overtime_active

\* C40: on every colour file made of 4-field and 7-field lines the loader
\* of the scoreboard and the loader of the colour picker give the same
\* ordered list of entries (name, LED colour, display colour).  The files
\* meant have at least one line, each of 4 or 7 fields with integer colour
\* values.
C40_LoadersAgree ==
    (/\ color_file.exists
     /\ color_file.lines # <<>>
     /\ \A i \in 1..Len(color_file.lines) :
          parse_line(color_file.lines[i]).kind \in {"old", "entry"}) =>
        LoadedBy("Scoreboard", color_file).colors =
            LoadedBy("ColorPicker", color_file).colors
====
